---- MODULE Spec2Model ----
(***************************************************************************)
(* Voice-assistant gateway (Server_Xiaozhi): the per-session transport     *)
(* handler, the conversation pipeline and the LLM failover adapter.        *)
(*                                                                         *)
(* One session on one connection is modelled; the process-wide maps of     *)
(* the handler are keyed by session id and the entries of two sessions     *)
(* never meet.  Every action is one run of a coroutine between two of its  *)
(* suspension points (asyncio is single-threaded and cooperative).         *)
(***************************************************************************)
EXTENDS Integers, Sequences, FiniteSets, TLC

VARIABLES
    \* ---- LLMService.chat_stream (llm.py) ----
    llm_providers,   \* behaviour of each configured provider (environment)
    llm_pc,          \* position of the generator
    llm_i,           \* index of the provider of the current loop iteration
    llm_pos,         \* next event of the current provider's stream
    llm_yielded,     \* items yielded so far
    llm_attempts     \* providers whose completion was requested, in order

llm_vars == <<llm_providers, llm_pc, llm_i, llm_pos, llm_yielded, llm_attempts>>

VARIABLES
    \* ---- Session (session.py) ----
    pcm_buffer,          \* len(session._pcm_buffer), in bytes
    silent_frames,       \* session._silent_frames
    speech_frames,       \* session._speech_frames
    has_speech,          \* session._has_speech
    aborted,             \* session.aborted
    is_speaking,         \* session.is_speaking
    is_idling,           \* session.is_idling, "True" or "False"; "unset" until first assigned
    \* ---- transport handler (handler.py) ----
    conn,                \* handle_client: "open", "flushing" (final pipeline), "closed"
    sock_open,           \* whether a write on the socket succeeds
    frame_counters,      \* _frame_counters, a dict keyed by session id
    pipeline_triggered,  \* _pipeline_triggered, a set of session ids
    send_lock,           \* _session_send_locks[sid]: "none", "free" or "held"
    tasks,               \* the coroutines launched for the session
    n_tasks,             \* how many were launched
    alarm,               \* the alarm delivery coroutine (alarm_scheduler.py)
    \* ---- environment and observation ----
    listens,             \* `listen start`/`detect` messages handled
    utter_launches,      \* launch sites fired since the last `listen start`/`detect`
    quiet_run,           \* how many of the frames last examined by the VAD in this
                         \* utterance were quiet in a row, up to silence_frames_needed
    \* ---- conversation memory (session.py) ----
    chat_history,        \* session.chat_history, a list of <<role, content>>
    history_log,         \* every entry ever appended to chat_history, in order
    \* ---- text messages (handler.py _on_text) ----
    texts,               \* the kinds of the text messages handled, in order, other
                         \* than `listen` and `abort`
    handler_sent,        \* the replies written by their handlers, in order
    \* ---- alarm scheduler (alarm_scheduler.py, tools.py) ----
    alarm_file,          \* alarms.json: the list of alarm records
    alarm_deliveries,    \* per record, the delivery tasks created for the session
    ticks,               \* passes of _alarm_loop
    \* ---- pacing of one frame stream (pipeline.py) ----
    pace,                \* sent: frames sent; next_send_ts (-1: None); now: the clock
                         \* of the event loop, in ms; last_send: when the last frame
                         \* was sent; gap: the time between the last two sends
    \* ---- TTSService (tts.py) ----
    dsp,                 \* enabled: whether the voice style is a robot style;
                         \* phase: _robot_phase; lp_prev: _robot_lp_prev
    synth_calls,         \* the synthesize calls made: chunks left, the DSP state
                         \* at the start of the call, the first styled chunk
    \* ---- one generative reply (pipeline.py process, _stream_response) ----
    reply,               \* the queue, the producer, the consumer, the intent task
                         \* and the rest of process
    \* ---- the text of a reply on its way to TTS (pipeline.py) ----
    chunker,             \* buffer: the producer's buffer; full_response; enqueued:
                         \* the texts passed to _enqueue_sentence, in order; cut: the
                         \* last call of _extract_soft_chunk, its input and result
    \* ---- one inbound binary message (handler.py _extract_opus_payload) ----
    wire,                \* data: the message; version: the protocol version;
                         \* opus: what _on_binary hands to the decoder
    \* ---- one call of chat_json (llm.py) ----
    inbound,             \* parity: flips with every binary message handled;
                         \* decoded, aborted: whether the last one decoded and
                         \* whether the session was aborted when it came
    at_trigger,          \* the bytes buffered when `listen stop` last created a
                         \* pipeline, -1 before
    cj                   \* i: the provider being tried; hinted: whether its next
                         \* call carries response_format; calls: the calls made
                         \* and their outcomes; result

session_vars == <<pcm_buffer, silent_frames, speech_frames, has_speech, aborted,
                  is_speaking, is_idling>>
handler_vars == <<conn, sock_open, frame_counters, pipeline_triggered, send_lock>>
task_vars == <<tasks, n_tasks, alarm>>
env_vars == <<listens, utter_launches, quiet_run>>
history_vars == <<chat_history, history_log>>
text_vars == <<texts, handler_sent>>
sched_vars == <<alarm_file, alarm_deliveries, ticks>>
\* the variables of the services beside the session
pace_vars == <<pace>>
dsp_vars == <<dsp, synth_calls>>
reply_vars == <<reply>>
\* the variables of the functions checked on their own
fn_vars == <<chunker, wire, cj, inbound, at_trigger>>
ext_vars == <<sched_vars, pace_vars, dsp_vars, reply_vars, fn_vars>>

vars == <<llm_vars, session_vars, handler_vars, task_vars, env_vars, history_vars, text_vars, ext_vars>>

----------------------------------------------------------------------------
(* Bounds of the model *)

\* number of configured LLM providers
NumProviders == 2
\* longest provider stream, in chunks
MaxStreamLen == 2

----------------------------------------------------------------------------
(* LLMService.chat_stream *)

RECURSIVE SeqsUpTo(_, _)
SeqsUpTo(S, n) ==
    IF n = 0 THEN {<<>>}
    ELSE LET shorter == SeqsUpTo(S, n - 1)
         IN  shorter \cup {Append(s, x) : s \in {t \in shorter : Len(t) = n - 1}, x \in S}

\* A provider either refuses the completion request, or answers with a stream
\* of chunks, each with a non-empty delta ("D") or without one ("E": no
\* choices, or empty content), that ends normally or by raising.
ProviderBehaviours ==
    {[create |-> "raise", ev |-> <<>>, end |-> "END"]}
    \cup {[create |-> "ok", ev |-> s, end |-> e] :
            s \in SeqsUpTo({"D", "E"}, MaxStreamLen), e \in {"END", "ERR"}}

Providers == 1..NumProviders

\* the fixed apology of chat_stream
Apology == [src |-> 0, pos |-> 0]

Delta(p, k) == [src |-> p, pos |-> k]

\* `continue` of the provider loop: the next provider, or the code after the loop
\* a failover that passes over the provider next in the list
NextProviderSkipping(i) ==
    IF i + 2 <= NumProviders
    THEN llm_i' = i + 2 /\ llm_pc' = "create"
    ELSE llm_i' = i /\ llm_pc' = "apology"

NextProvider(i) ==
    IF i + 1 <= NumProviders
    THEN llm_i' = i + 1 /\ llm_pc' = "create"
    ELSE llm_i' = i /\ llm_pc' = "apology"

\* client.chat.completions.create(...) of provider llm_i
LlmCreate ==
    /\ llm_pc = "create"
    /\ llm_attempts' = Append(llm_attempts, llm_i)
    /\ llm_pos' = 1
    /\ IF llm_providers[llm_i].create = "raise"
       THEN NextProvider(llm_i)
       ELSE llm_pc' = "first" /\ llm_i' = llm_i
    /\ UNCHANGED <<llm_providers, llm_yielded>>
    /\ UNCHANGED <<session_vars, handler_vars, task_vars, env_vars, history_vars, text_vars, ext_vars>>

\* one chunk of the first `async for`: read until the first non-empty delta
LlmReadFirst ==
    /\ llm_pc = "first"
    /\ LET b == llm_providers[llm_i] IN
       IF llm_pos > Len(b.ev)
       THEN \* the stream raised, or ended and first_chunk is None
            /\ NextProvider(llm_i)
            /\ UNCHANGED <<llm_pos, llm_yielded>>
       ELSE IF b.ev[llm_pos] = "D"
            THEN /\ llm_yielded' = Append(llm_yielded, Delta(llm_i, llm_pos))
                 /\ llm_pos' = llm_pos + 1
                 /\ llm_pc' = "rest"
                 /\ llm_i' = llm_i
            ELSE /\ llm_pos' = llm_pos + 1
                 /\ UNCHANGED <<llm_pc, llm_i, llm_yielded>>
    /\ UNCHANGED <<llm_providers, llm_attempts>>
    /\ UNCHANGED <<session_vars, handler_vars, task_vars, env_vars, history_vars, text_vars, ext_vars>>

\* one chunk of the second `async for`, inside the same try block
LlmReadRest ==
    /\ llm_pc = "rest"
    /\ LET b == llm_providers[llm_i] IN
       IF llm_pos > Len(b.ev)
       THEN /\ IF b.end = "ERR"
               THEN NextProvider(llm_i)      \* except Exception: continue
               ELSE llm_pc' = "done" /\ llm_i' = llm_i   \* return
            /\ UNCHANGED <<llm_pos, llm_yielded>>
       ELSE /\ llm_pos' = llm_pos + 1
            /\ llm_yielded' = IF b.ev[llm_pos] = "D"
                              THEN Append(llm_yielded, Delta(llm_i, llm_pos))
                              ELSE llm_yielded
            /\ UNCHANGED <<llm_pc, llm_i>>
    /\ UNCHANGED <<llm_providers, llm_attempts>>
    /\ UNCHANGED <<session_vars, handler_vars, task_vars, env_vars, history_vars, text_vars, ext_vars>>

\* after the loop: every provider failed
LlmApology ==
    /\ llm_pc = "apology"
    /\ llm_yielded' = Append(llm_yielded, Apology)
    /\ llm_pc' = "done"
    /\ UNCHANGED <<llm_providers, llm_i, llm_pos, llm_attempts>>
    /\ UNCHANGED <<session_vars, handler_vars, task_vars, env_vars, history_vars, text_vars, ext_vars>>

LlmInit ==
    /\ llm_providers \in [Providers -> ProviderBehaviours]
    /\ llm_pc = "create"
    /\ llm_i = 1
    /\ llm_pos = 1
    /\ llm_yielded = <<>>
    /\ llm_attempts = <<>>

----------------------------------------------------------------------------
(* Program constants *)

\* the one session id of the model
SID == "s1"

\* bytes of PCM of one decoded 60 ms frame: 960 samples of 2 bytes
PcmFrameBytes == 1920
\* _run_pipeline and the disconnect flush compare the buffer with 3200 bytes
MinPipelineBytes == 3200
MIN_PCM_BYTES == 16000
IDLE_TIMEOUT_FRAMES == 167
\* AudioOutputConfig.frame_duration_ms, and the frames sent before pacing starts
frame_duration_ms == 60
PRE_BUFFER == 3
\* AppConfig.max_chat_history, copied to Session._max_history
max_history == 20
\* the capacity of the queue between producer and consumer
maxsize == 100
\* the shortest soft chunk and the reach of the search for a cut
CHUNK_MIN_CHARS == 28
CHUNK_HARD_LIMIT == 90
\* the ASCII members of the two character sets; the full-width comma, colon
\* and enumeration comma of CHUNK_PUNCT_BREAKS behave like ":"
SENTENCE_ENDINGS == {".", "!", "?", ";", ",", "\n"}
CHUNK_PUNCT_BREAKS == {",", ":"}
CHUNK_SPACE_BREAK == " "
speech_threshold == 2500
silence_threshold == 2000
speech_frames_needed == 8
silence_frames_needed == 10

\* rms of an inbound frame: quiet (at the silence threshold) or voiced
\* (above the speech threshold)
TrigRms == {silence_threshold, speech_threshold + 1}
QuietRms == {silence_threshold}
\* the rms on either side of each threshold
VadRms == {silence_threshold, silence_threshold + 1, speech_threshold, speech_threshold + 1}

(* Bounds of the environment *)

\* `listen start`/`detect` messages per connection
MaxListens == 1
\* frames of an utterance in the specification of the pipeline
MaxUtterFrames == 9
\* in the specification of the triggers, frames above the silence threshold
\* arrive among the first MaxVoicedAt frames of an utterance only
MaxVoicedAt == 8
\* frames accepted past the idle timeout
MaxIdleExtra == 1
\* frames accepted while the utterance's pipeline is triggered and the buffer
\* already holds this many frames
MaxTrigFrames == 1
\* frames of an utterance in the specification of the VAD
MaxVadFrames == 20
\* calls of save_history on one session
MaxTurns == 12
\* text messages other than `listen` and `abort`
MaxTexts == 2
\* synthesize calls, PCM chunks of a call, steps of the carrier in a period
MaxSynthCalls == 2
MaxChunks == 2
PhaseSteps == 4
\* frames of a paced stream
MaxPacedFrames == 6
\* records of alarms.json, passes of the scheduler
MaxAlarmRecords == 2
MaxTicks == 3
\* sentences of a reply, frames of a sentence or of a stream
MaxSentences == 2
MaxSentenceFrames == 1
\* alarms delivered to the session, frames of the ringtone
MaxAlarms == 1
MaxAlarmFrames == 1

\* every launch but the first needs a `listen start` before it
MaxTasks == MaxListens + 1
\* characters of a run of breaks in the buffers given to _extract_soft_chunk
MaxBreakLen == 2
\* chunks of the language model in the specification of the reply's text
MaxTextChunks == 3
\* bytes of a binary message in the specification of the payload
MaxWireLen == 20
\* sentences of a generative reply in the specification of the bounded queue
MaxReplySentences == 25
\* frames synthesized for each of them: as many as make a reply of
\* MaxReplySentences sentences, markers included, overfill the queue
FramesPerSentence == maxsize \div MaxReplySentences
TaskIds == 1..MaxTasks

----------------------------------------------------------------------------
(* Session *)

Min(a, b) == IF a <= b THEN a ELSE b

Get(d, k, default) == IF k \in DOMAIN d THEN d[k] ELSE default
Put(d, k, v) == [x \in DOMAIN d \cup {k} |-> IF x = k THEN v ELSE d[x]]
Pop(d, k) == [x \in DOMAIN d \ {k} |-> d[x]]
EmptyDict == [x \in {} |-> 0]

\* a check_vad whose loud counter starts again after a frame that is not loud
check_vad_consecutive(rms) ==
    IF rms > speech_threshold
    THEN [state |-> "speech", silent |-> 0, speech |-> speech_frames + 1,
          has |-> (has_speech \/ speech_frames + 1 >= speech_frames_needed)]
    ELSE IF rms > silence_threshold
    THEN [state |-> IF has_speech THEN "speech" ELSE "silence",
          silent |-> 0, speech |-> 0, has |-> has_speech]
    ELSE [state |-> IF has_speech /\ silent_frames + 1 >= silence_frames_needed
                    THEN "silence_after_speech" ELSE "silence",
          silent |-> silent_frames + 1, speech |-> 0, has |-> has_speech]

\* a check_vad whose middle branch leaves _silent_frames alone
check_vad_no_reset(rms) ==
    IF rms > speech_threshold
    THEN [state |-> "speech", silent |-> 0, speech |-> speech_frames + 1,
          has |-> (has_speech \/ speech_frames + 1 >= speech_frames_needed)]
    ELSE IF rms > silence_threshold
    THEN [state |-> IF has_speech THEN "speech" ELSE "silence",
          silent |-> silent_frames, speech |-> speech_frames, has |-> has_speech]
    ELSE [state |-> IF has_speech /\ silent_frames + 1 >= silence_frames_needed
                    THEN "silence_after_speech" ELSE "silence",
          silent |-> silent_frames + 1, speech |-> speech_frames, has |-> has_speech]

\* Session.check_vad: the result and the VAD state after a frame of rms `rms`
check_vad(rms) ==
    IF rms > speech_threshold
    THEN [state |-> "speech", silent |-> 0, speech |-> speech_frames + 1,
          has |-> (has_speech \/ speech_frames + 1 >= speech_frames_needed)]
    ELSE IF rms > silence_threshold
    THEN [state |-> IF has_speech THEN "speech" ELSE "silence",
          silent |-> 0, speech |-> speech_frames, has |-> has_speech]
    ELSE [state |-> IF has_speech /\ silent_frames + 1 >= silence_frames_needed
                    THEN "silence_after_speech" ELSE "silence",
          silent |-> silent_frames + 1, speech |-> speech_frames, has |-> has_speech]

\* Session.reset_audio_buffer
reset_audio_buffer ==
    /\ pcm_buffer' = 0
    /\ silent_frames' = 0
    /\ has_speech' = FALSE
    /\ speech_frames' = 0
    /\ aborted' = FALSE

\* an entry of chat_history: {"role": role, "content": content}
Entry(role, content) == <<role, content>>

\* the slice h[-n:] of a list, for n > 0
LastN(h, n) == IF Len(h) <= n THEN h ELSE SubSeq(h, Len(h) - n + 1, Len(h))

\* a save that trims to the oldest entries
save_history_keep_oldest(user_text, assistant_text) ==
    LET h == chat_history \o <<Entry("user", user_text), Entry("assistant", assistant_text)>>
    IN /\ chat_history' = IF Len(h) > max_history THEN SubSeq(h, 1, max_history) ELSE h
       /\ history_log' = history_log \o <<Entry("user", user_text),
                                          Entry("assistant", assistant_text)>>

\* a save that appends the reply before the request
save_history_user_last(user_text, assistant_text) ==
    LET h == chat_history \o <<Entry("assistant", assistant_text), Entry("user", user_text)>>
    IN /\ chat_history' = IF Len(h) > max_history THEN LastN(h, max_history) ELSE h
       /\ history_log' = history_log \o <<Entry("assistant", assistant_text),
                                          Entry("user", user_text)>>

\* Session.save_history
save_history(user_text, assistant_text) ==
    LET h == chat_history \o <<Entry("user", user_text), Entry("assistant", assistant_text)>>
    IN /\ chat_history' = IF Len(h) > max_history THEN LastN(h, max_history) ELSE h
       /\ history_log' = history_log \o <<Entry("user", user_text),
                                          Entry("assistant", assistant_text)>>

----------------------------------------------------------------------------
(* Coroutines of the session: _run_pipeline ("run") and _goodbye_and_idle   *)
(* ("bye").  Three fields observe a coroutine and are not program state:    *)
(* `sent`, its writes on the socket in order; `abort_at`, the length of     *)
(* `sent` when an `abort` message was first handled while it was running    *)
(* (-1: none was); `mid_alarm`, whether it wrote between the `tts start`    *)
(* and the `tts stop` of an alarm delivery.                                 *)

NoTask == [kind |-> "none", pc |-> "done", inline |-> FALSE, ws_open |-> TRUE,
           abort_at |-> -1, mid_alarm |-> FALSE, path |-> "none", prod |-> "none", cons |-> "none",
           queue |-> <<>>, nsent |-> 0, nfr |-> 0, spoken |-> FALSE, last |-> FALSE,
           held |-> 0, found |-> FALSE, url |-> FALSE, sent |-> <<>>, tried |-> 0]

NewTask(kind, pc, inline) == [NoTask EXCEPT !.kind = kind, !.pc = pc, !.inline = inline]

\* a finished coroutine keeps no locals
Retire(rec) == [NoTask EXCEPT !.kind = rec.kind, !.ws_open = rec.ws_open,
                              !.abort_at = rec.abort_at,
                              !.mid_alarm = rec.mid_alarm, !.inline = rec.inline,
                              !.path = rec.path, !.sent = rec.sent, !.tried = rec.tried]

\* a run past its first step and not yet terminated
RunStarted(t) == tasks[t].kind = "run" /\ tasks[t].pc \notin {"launched", "done"}

\* a write on the socket, of kind `m`, for sentence `k`; the field `sent` of a
\* coroutine observes its writes, in order
Msg(m, k) == <<m, k>>

\* an entry with no minimum length of its own
RunEntryNoMinimum(buf) ==
    IF buf < MIN_PCM_BYTES THEN "no_text" ELSE "stt"

\* what _run_pipeline does with the drained buffer before its first suspension
\* (handler.py 322-331, then ConversationPipeline.process and STTService.transcribe)
RunEntry(buf) ==
    IF buf < MinPipelineBytes THEN "short"        \* return before is_speaking
    ELSE IF buf < MIN_PCM_BYTES THEN "no_text"    \* transcribe returns None at once
    ELSE "stt"                                    \* suspended in the STT request

\* asyncio.create_task(...) of a launch site
Launch(kind) ==
    /\ tasks' = [tasks EXCEPT ![n_tasks + 1] = NewTask(kind, "launched", FALSE)]
    /\ n_tasks' = n_tasks + 1
    /\ utter_launches' = utter_launches + 1

\* an end of the finally block that leaves the send lock registered
CleanupKeepLock ==
    /\ pipeline_triggered' = pipeline_triggered \ {SID}
    /\ UNCHANGED send_lock
    /\ conn' = "closed"
    /\ sock_open' = FALSE

\* an end of the finally block that leaves the triggered flag set
CleanupKeepFlag ==
    /\ UNCHANGED pipeline_triggered
    /\ send_lock' = "none"
    /\ conn' = "closed"
    /\ sock_open' = FALSE

\* the end of handle_client's finally block (handler.py 72-82)
Cleanup ==
    /\ pipeline_triggered' = pipeline_triggered \ {SID}
    /\ send_lock' = "none"
    /\ conn' = "closed"
    /\ sock_open' = FALSE

\* the keys of _session_send_locks, and of _session_ws and _active_sessions,
\* which are written in the same steps: together before the loop of
\* handle_client and together at the end of its finally block
session_send_locks == IF send_lock = "none" THEN {} ELSE {SID}
session_ws == IF conn = "closed" THEN {} ELSE {SID}
active_sessions == IF conn = "closed" THEN {} ELSE {SID}

\* handle_client's finally block (handler.py 57-82), entered with `buf` bytes
\* buffered; `sock` tells whether the socket is still writable
Finally(buf, sock) ==
    /\ frame_counters' = Pop(frame_counters, SID)
    /\ IF buf > MinPipelineBytes /\ SID \notin pipeline_triggered
       THEN \* await _run_pipeline(ws, session), up to its first suspension
            /\ pcm_buffer' = 0
            /\ utter_launches' = utter_launches + 1
            /\ n_tasks' = n_tasks + 1
            /\ IF RunEntry(buf) = "stt"
               THEN /\ tasks' = [tasks EXCEPT ![n_tasks + 1] = NewTask("run", "stt", TRUE)]
                    /\ is_speaking' = TRUE
                    /\ pipeline_triggered' = pipeline_triggered \cup {SID}
                    /\ conn' = "flushing"
                    /\ sock_open' = sock
                    /\ UNCHANGED send_lock
               ELSE /\ tasks' = [tasks EXCEPT ![n_tasks + 1] =
                                    Retire(NewTask("run", "done", TRUE))]
                    /\ is_speaking' = FALSE
                    /\ Cleanup
       ELSE /\ pcm_buffer' = buf
            /\ Cleanup
            /\ UNCHANGED <<tasks, n_tasks, utter_launches, is_speaking>>

----------------------------------------------------------------------------
(* Transport handler: one action per inbound message *)

\* a `listen start` that leaves the triggered flag as it is
ListenStartKeepFlag ==
    /\ conn = "open"
    /\ listens < MaxListens
    /\ listens' = listens + 1
    /\ reset_audio_buffer
    /\ is_idling' = "False"
    /\ frame_counters' = Put(frame_counters, SID, 0)
    /\ utter_launches' = 0
    /\ quiet_run' = 0
    /\ UNCHANGED <<llm_vars, ext_vars, history_vars, text_vars, is_speaking, conn, sock_open, send_lock, tasks, n_tasks,
                   alarm, pipeline_triggered>>

\* _handle_listen, state "start" or "detect"
ListenStart ==
    /\ conn = "open"
    /\ listens < MaxListens
    /\ listens' = listens + 1
    /\ reset_audio_buffer
    /\ is_idling' = "False"
    /\ frame_counters' = Put(frame_counters, SID, 0)
    /\ pipeline_triggered' = pipeline_triggered \ {SID}
    /\ utter_launches' = 0
    /\ quiet_run' = 0
    /\ UNCHANGED <<llm_vars, ext_vars, history_vars, text_vars, is_speaking, conn, sock_open, send_lock, tasks, n_tasks,
                   alarm>>

\* the guard of `listen stop` (handler.py 239)
StopTriggersAlways == TRUE

StopTriggers == SID \notin pipeline_triggered

\* _handle_listen, state "stop"
listen_stop ==
    /\ conn = "open"
    /\ IF StopTriggers
       THEN /\ pipeline_triggered' = pipeline_triggered \cup {SID}
            /\ Launch("run")
       ELSE UNCHANGED <<pipeline_triggered, tasks, n_tasks, utter_launches>>
    /\ UNCHANGED <<history_vars, text_vars, session_vars, conn, sock_open, frame_counters, send_lock,
                   alarm, listens, quiet_run>>

ListenStop ==
    /\ listen_stop
    /\ UNCHANGED <<llm_vars, ext_vars>>

\* the same, observed: `at_trigger` keeps the bytes that were buffered when
\* the message created a pipeline
ObservedStop ==
    /\ listen_stop
    /\ at_trigger' = IF StopTriggers THEN pcm_buffer ELSE at_trigger
    /\ UNCHANGED <<llm_vars, sched_vars, pace_vars, dsp_vars, reply_vars, chunker,
                   wire, cj, inbound>>

\* _handle_abort
Abort ==
    /\ conn = "open"
    /\ aborted' = TRUE
    /\ is_speaking' = FALSE
    /\ tasks' = [t \in TaskIds |->
                    IF RunStarted(t) /\ tasks[t].abort_at < 0
                    THEN [tasks[t] EXCEPT !.abort_at = Len(tasks[t].sent)]
                    ELSE tasks[t]]
    /\ UNCHANGED <<llm_vars, ext_vars, history_vars, text_vars, pcm_buffer, silent_frames, speech_frames, has_speech,
                   is_idling, handler_vars, n_tasks, alarm, env_vars>>

\* Session.append_audio with the session not guarding against `aborted`
append_audio_unguarded(decodes) == IF ~decodes THEN "None" ELSE "pcm"

\* Session.append_audio: None when aborted or when the decoder raises
append_audio(decodes) == IF aborted \/ ~decodes THEN "None" ELSE "pcm"

\* _on_binary for one audio frame of rms `rms` that decodes iff `decodes`
on_binary(rms, decodes) ==
    /\ conn = "open"
    /\ IF append_audio(decodes) = "None"
       THEN \* `if pcm is None: return`
            UNCHANGED <<session_vars, handler_vars, tasks, n_tasks, utter_launches>>
       ELSE LET count == Get(frame_counters, SID, 0) + 1
                buf == pcm_buffer + PcmFrameBytes
                vad == check_vad(rms)
            IN
            IF SID \in pipeline_triggered
            THEN /\ pcm_buffer' = buf
                 /\ frame_counters' = Put(frame_counters, SID, count)
                 /\ UNCHANGED <<silent_frames, speech_frames, has_speech, aborted,
                                is_speaking, is_idling, conn, sock_open,
                                pipeline_triggered, send_lock, tasks, n_tasks,
                                utter_launches>>
            ELSE /\ silent_frames' = vad.silent
                 /\ speech_frames' = vad.speech
                 /\ has_speech' = vad.has
                 /\ UNCHANGED aborted
                 /\ IF vad.state = "silence_after_speech"
                    THEN /\ pcm_buffer' = buf
                         /\ frame_counters' = Put(frame_counters, SID, count)
                         /\ pipeline_triggered' = pipeline_triggered \cup {SID}
                         /\ Launch("run")
                         /\ UNCHANGED <<is_speaking, is_idling, conn, sock_open, send_lock>>
                    ELSE IF ~vad.has /\ count >= IDLE_TIMEOUT_FRAMES
                    THEN IF is_idling = "unset"
                         THEN \* AttributeError: handle_client logs it and runs
                              \* its finally block; the socket was not closed
                              /\ Finally(buf, TRUE)
                              /\ UNCHANGED is_idling
                         ELSE IF is_idling = "True"
                         THEN /\ pcm_buffer' = buf
                              /\ frame_counters' = Put(frame_counters, SID, count)
                              /\ UNCHANGED <<is_speaking, is_idling, conn, sock_open,
                                             pipeline_triggered, send_lock, tasks,
                                             n_tasks, utter_launches>>
                         ELSE /\ pcm_buffer' = buf
                              /\ frame_counters' = Put(frame_counters, SID, count)
                              /\ pipeline_triggered' = pipeline_triggered \cup {SID}
                              /\ Launch("bye")
                              /\ UNCHANGED <<is_speaking, is_idling, conn, sock_open,
                                             send_lock>>
                    ELSE /\ pcm_buffer' = buf
                         /\ frame_counters' = Put(frame_counters, SID, count)
                         /\ UNCHANGED <<is_speaking, is_idling, conn, sock_open,
                                        pipeline_triggered, send_lock, tasks, n_tasks,
                                        utter_launches>>
    /\ quiet_run' = IF append_audio(decodes) = "None" \/ SID \in pipeline_triggered
                    THEN quiet_run
                    ELSE IF rms <= silence_threshold
                    THEN Min(quiet_run + 1, silence_frames_needed)
                    ELSE 0

OnBinary(rms, decodes) ==
    /\ on_binary(rms, decodes)
    /\ UNCHANGED <<llm_vars, ext_vars, history_vars, text_vars, alarm, listens>>

\* the same, observed: `inbound` tells whether the frame decoded and
\* whether the session was aborted when it came
InboundFrame(rms, decodes) ==
    /\ on_binary(rms, decodes)
    /\ inbound' = [parity |-> 1 - inbound.parity, decoded |-> decodes,
                   aborted |-> aborted]
    /\ UNCHANGED <<llm_vars, sched_vars, pace_vars, dsp_vars, reply_vars, chunker,
                   wire, cj, at_trigger, history_vars, text_vars, alarm, listens>>

\* _on_binary for `n` quiet frames in a row, none of which reaches the idle
\* timeout, on an utterance with no speech: each takes the last branch of
\* OnBinary
OnBinaryQuiet(n) ==
    /\ conn = "open"
    /\ ~aborted /\ SID \notin pipeline_triggered /\ ~has_speech
    /\ n > 0 /\ Get(frame_counters, SID, 0) + n < IDLE_TIMEOUT_FRAMES
    /\ pcm_buffer' = pcm_buffer + n * PcmFrameBytes
    /\ silent_frames' = silent_frames + n
    /\ frame_counters' = Put(frame_counters, SID, Get(frame_counters, SID, 0) + n)
    /\ UNCHANGED <<llm_vars, ext_vars, history_vars, text_vars, speech_frames, has_speech, aborted, is_speaking, is_idling,
                   conn, sock_open, pipeline_triggered, send_lock, task_vars, listens,
                   utter_launches>>
    /\ quiet_run' = Min(quiet_run + n, silence_frames_needed)

\* the client closes the connection: handle_client leaves its loop
Disconnect ==
    /\ conn = "open"
    /\ Finally(pcm_buffer, FALSE)
    /\ UNCHANGED <<llm_vars, ext_vars, history_vars, text_vars, silent_frames, speech_frames, has_speech, aborted,
                   is_idling, alarm, listens, quiet_run>>

\* the kinds of text message _on_text tells apart, `listen` and `abort`
\* aside: text that is not JSON, JSON that is not an object, a `type` with no
\* handler, `hello`, and `mcp` with the operation tools/list, tools/call or
\* any other
TextKinds == {"not_json", "not_object", "other_type", "hello",
              "mcp_list", "mcp_call", "mcp_other"}

\* what the handler of a text message writes on the socket, "" for nothing:
\* only _handle_hello and _handle_mcp write
Reply(kind) ==
    CASE kind = "hello" -> "hello"
      [] kind = "mcp_list" -> "mcp_tools"
      [] kind = "mcp_call" -> "mcp_result"
      [] kind = "mcp_other" -> "mcp_error"
      [] OTHER -> ""

\* _on_text for a message of kind `kind`.  `msg.get` raises on JSON that is
\* not an object, and a write raises on a closed socket: the exception
\* leaves the receive loop for handle_client's finally block
OnText(kind) ==
    /\ conn = "open"
    /\ Len(texts) < MaxTexts
    /\ texts' = Append(texts, kind)
    /\ IF kind = "not_object" \/ (Reply(kind) # "" /\ ~sock_open)
       THEN /\ Finally(pcm_buffer, sock_open)
            /\ UNCHANGED <<handler_sent, silent_frames, speech_frames, has_speech,
                           aborted, is_idling>>
       ELSE /\ handler_sent' = IF Reply(kind) = "" THEN handler_sent
                                ELSE Append(handler_sent, Reply(kind))
            /\ UNCHANGED <<session_vars, handler_vars, tasks, n_tasks, utter_launches>>
    /\ UNCHANGED <<llm_vars, ext_vars, history_vars, alarm, listens, quiet_run>>

----------------------------------------------------------------------------
(* _run_pipeline and ConversationPipeline.process *)

\* the alarm delivery has written its `tts start` and not yet its `tts stop`
AlarmBurstOpen == alarm.pc \in {"a_ss", "a_frames", "a_stop"}

\* a send helper without the ws_open early return: every send calls the socket
SentRetrying(rec, m, k) ==
    IF sock_open /\ rec.ws_open
    THEN [rec EXCEPT !.sent = Append(@, Msg(m, k)), !.tried = @ + 1,
                     !.mid_alarm = @ \/ AlarmBurstOpen]
    ELSE [rec EXCEPT !.ws_open = FALSE, !.tried = @ + 1]

\* safe_send_json / safe_send_bytes of a pipeline run: the run after the write;
\* tried counts the calls of ws.send_text / ws.send_bytes, sent the ones that succeeded
Sent(rec, m, k) ==
    IF ~rec.ws_open THEN rec
    ELSE IF sock_open
    THEN [rec EXCEPT !.sent = Append(@, Msg(m, k)), !.tried = @ + 1,
                     !.mid_alarm = @ \/ AlarmBurstOpen]
    ELSE [rec EXCEPT !.ws_open = FALSE, !.tried = @ + 1]

\* a process that returns without on_tts_stop
StopCheckSilent(rec) == [rec EXCEPT !.pc = "finish"]

\* `if not is_aborted(): await on_tts_stop()` and the return of process
StopCheck(rec) ==
    IF ~aborted
    THEN [Sent(rec, "stop", 0) EXCEPT !.pc = "finish"]
    ELSE [rec EXCEPT !.pc = "done"]

\* asyncio.gather(producer(), consumer()) returns when both have
Join(rec) ==
    IF rec.prod = "done" /\ rec.cons = "done" THEN [rec EXCEPT !.pc = "stop"] ELSE rec

\* a process whose fast music path returns None
ProcessResultNoMusic(rec) ==
    IF rec.path = "gen" /\ rec.nsent > 0 THEN "reply" ELSE ""

\* what process returns to _run_pipeline: "" for None, else the kind of the
\* pair: the fast music path returns (user_text, ""), the other path
\* (user_text, full_response) when the model streamed some text
ProcessResult(rec) ==
    IF rec.path = "music" THEN "empty_reply"
    ELSE IF rec.path = "gen" /\ rec.nsent > 0 THEN "reply"
    ELSE ""

\* a step of run t that leaves it as `rec`; a run that ends saves the result
\* of process if there is one (handler.py 404-406), passes through
\* `finally: session.is_speaking = False`, and the run awaited by
\* handle_client's finally block returns into it
RunStep(t, rec) ==
    /\ tasks' = [tasks EXCEPT ![t] = IF rec.pc = "done" THEN Retire(rec) ELSE rec]
    /\ IF rec.pc = "done" /\ ProcessResult(rec) # ""
       THEN save_history(t, IF ProcessResult(rec) = "reply" THEN t ELSE 0)
       ELSE UNCHANGED history_vars
    /\ IF rec.pc = "done"
       THEN /\ is_speaking' = FALSE
            /\ IF rec.inline THEN Cleanup
               ELSE UNCHANGED <<conn, sock_open, pipeline_triggered, send_lock>>
       ELSE UNCHANGED <<is_speaking, conn, sock_open, pipeline_triggered, send_lock>>
    /\ UNCHANGED <<llm_vars, ext_vars, text_vars, pcm_buffer, silent_frames, speech_frames, has_speech,
                   aborted, is_idling, frame_counters, n_tasks, alarm, env_vars>>

\* the launched task runs: take_audio_buffer, the length check, the start of STT
RunStart(t) ==
    /\ tasks[t].kind = "run" /\ tasks[t].pc = "launched"
    /\ LET e == RunEntry(pcm_buffer) IN
       /\ pcm_buffer' = 0
       /\ tasks' = [tasks EXCEPT ![t] = IF e = "stt"
                                        THEN [@ EXCEPT !.pc = "stt"]
                                        ELSE Retire(@)]
       /\ is_speaking' = IF e = "short" THEN is_speaking ELSE (e = "stt")
    /\ UNCHANGED <<llm_vars, ext_vars, history_vars, text_vars, silent_frames, speech_frames, has_speech, aborted,
                   is_idling, handler_vars, n_tasks, alarm, env_vars>>

\* the STT request returns `res`: "none" (no text), or a text that
\* detect_fast classifies as "music" or not ("gen")
SttDone(t, res) ==
    /\ tasks[t].kind = "run" /\ tasks[t].pc = "stt"
    /\ IF res = "none"
       THEN RunStep(t, [tasks[t] EXCEPT !.pc = "done"])
       ELSE RunStep(t, [Sent(tasks[t], "stt", 0) EXCEPT !.pc = "stt_sent", !.path = res])

\* on_tts_start of either path
TtsStart(t) ==
    /\ tasks[t].kind = "run" /\ tasks[t].pc = "stt_sent"
    /\ LET s == Sent(tasks[t], "start", 0) IN
       IF tasks[t].path = "music"
       THEN RunStep(t, [s EXCEPT !.pc = "m_tool"])
       ELSE RunStep(t, [s EXCEPT !.pc = "gen", !.prod = "llm", !.cons = "get"])

\* producer: chat_stream yields a chunk that completes a sentence
\* ("sentence"), or ends with ("end_rest") or without ("end") a residual
ProdChunk(t, ev) ==
    /\ tasks[t].kind = "run" /\ tasks[t].pc = "gen" /\ tasks[t].prod = "llm"
    /\ ev # "end" => tasks[t].nsent < MaxSentences
    /\ LET r == tasks[t] IN
       IF ev = "end" \/ aborted
       THEN RunStep(t, Join([r EXCEPT !.queue = Append(@, <<"DONE", 0>>),
                                      !.prod = "done"]))
       ELSE RunStep(t, [r EXCEPT !.queue = Append(@, <<"M", r.nsent + 1>>),
                                 !.nsent = @ + 1, !.nfr = 0, !.prod = "synth",
                                 !.last = (ev = "end_rest")])

\* producer in _enqueue_sentence: synthesize yields a frame, or ends; `more`
\* tells whether the buffer holds another complete sentence
ProdFrame(t, ev, more) ==
    /\ tasks[t].kind = "run" /\ tasks[t].pc = "gen" /\ tasks[t].prod = "synth"
    /\ ev = "frame" => tasks[t].nfr < MaxSentenceFrames
    /\ LET r == tasks[t] IN
       IF ev = "frame" /\ ~aborted
       THEN RunStep(t, [r EXCEPT !.queue = Append(@, <<"F", r.nsent>>), !.nfr = @ + 1])
       ELSE IF r.last
       THEN RunStep(t, Join([r EXCEPT !.queue = Append(@, <<"DONE", 0>>),
                                      !.prod = "done", !.nfr = 0]))
       ELSE IF more /\ r.nsent < MaxSentences
       THEN RunStep(t, [r EXCEPT !.queue = Append(@, <<"M", r.nsent + 1>>),
                                 !.nsent = @ + 1, !.nfr = 0])
       ELSE RunStep(t, [r EXCEPT !.prod = "llm", !.nfr = 0])

\* consumer: one queue.get()
ConsGet(t) ==
    /\ tasks[t].kind = "run" /\ tasks[t].pc = "gen" /\ tasks[t].cons = "get"
    /\ tasks[t].queue # <<>>
    /\ LET r == [tasks[t] EXCEPT !.queue = Tail(@)]
           item == Head(tasks[t].queue)
       IN
       IF item[1] = "DONE" THEN RunStep(t, Join([r EXCEPT !.cons = "done"]))
       ELSE IF aborted THEN RunStep(t, r)
       ELSE IF item[1] = "M"
       THEN IF r.spoken
            THEN RunStep(t, [r EXCEPT !.cons = "grace", !.held = item[2]])
            ELSE RunStep(t, [Sent(r, "ss", item[2]) EXCEPT !.spoken = TRUE])
       ELSE RunStep(t, Sent(r, "frame", item[2]))

\* consumer: the grace sleep before a caption is over
ConsGrace(t) ==
    /\ tasks[t].kind = "run" /\ tasks[t].pc = "gen" /\ tasks[t].cons = "grace"
    /\ RunStep(t, [Sent(tasks[t], "ss", tasks[t].held) EXCEPT !.cons = "get", !.held = 0, !.spoken = TRUE])

\* process resumes after response_task
RunStop(t) ==
    /\ tasks[t].kind = "run" /\ tasks[t].pc = "stop"
    /\ RunStep(t, StopCheck(tasks[t]))

\* _run_pipeline resumes after on_tts_stop
RunFinish(t) ==
    /\ tasks[t].kind = "run" /\ tasks[t].pc = "finish"
    /\ RunStep(t, [tasks[t] EXCEPT !.pc = "done"])

\* fast path: the music tool returns, with tracks or not; on_music_action
MusicTool(t, found) ==
    /\ tasks[t].kind = "run" /\ tasks[t].pc = "m_tool"
    /\ RunStep(t, [Sent(tasks[t], "mcp", 0) EXCEPT !.pc = "m_prev", !.found = found])

\* _stream_music_preview up to the caption of the acknowledgement
MusicPreview(t, url) ==
    /\ tasks[t].kind = "run" /\ tasks[t].pc = "m_prev"
    /\ IF aborted \/ ~tasks[t].found
       THEN RunStep(t, StopCheck(tasks[t]))
       ELSE RunStep(t, [Sent(tasks[t], "ss", 1) EXCEPT !.pc = "m_ack", !.url = url, !.nfr = 0])

\* _send_frames_with_pacing over synthesize(ack)
MusicAck(t, ev) ==
    /\ tasks[t].kind = "run" /\ tasks[t].pc = "m_ack"
    /\ ev = "frame" => tasks[t].nfr < MaxSentenceFrames
    /\ IF ev = "frame" /\ ~aborted
       THEN RunStep(t, [Sent(tasks[t], "frame", 1) EXCEPT !.nfr = @ + 1])
       ELSE IF ~tasks[t].url
       THEN RunStep(t, StopCheck(tasks[t]))
       ELSE RunStep(t, [tasks[t] EXCEPT !.pc = "m_gap", !.nfr = 0])

\* after the one-frame sleep: the caption of the song
MusicSong(t) ==
    /\ tasks[t].kind = "run" /\ tasks[t].pc = "m_gap"
    /\ RunStep(t, [Sent(tasks[t], "ss", 2) EXCEPT !.pc = "m_song", !.nfr = 0])

\* _send_frames_with_pacing over stream_full_song_by_query
MusicSongFrame(t, ev) ==
    /\ tasks[t].kind = "run" /\ tasks[t].pc = "m_song"
    /\ ev = "frame" => tasks[t].nfr < MaxSentenceFrames
    /\ IF ev = "frame" /\ ~aborted
       THEN RunStep(t, [Sent(tasks[t], "frame", 2) EXCEPT !.nfr = @ + 1])
       ELSE IF ev = "frame" \/ tasks[t].nfr = 0
       THEN \* streamed == 0: the preview is started
            RunStep(t, [tasks[t] EXCEPT !.pc = "m_fallback", !.nfr = 0])
       ELSE RunStep(t, StopCheck(tasks[t]))

\* _send_frames_with_pacing over stream_audio_url(preview_url)
MusicFallback(t, ev) ==
    /\ tasks[t].kind = "run" /\ tasks[t].pc = "m_fallback"
    /\ ev = "frame" => tasks[t].nfr < MaxSentenceFrames
    /\ IF ev = "frame" /\ ~aborted
       THEN RunStep(t, [Sent(tasks[t], "frame", 2) EXCEPT !.nfr = @ + 1])
       ELSE RunStep(t, StopCheck(tasks[t]))

----------------------------------------------------------------------------
(* _goodbye_and_idle *)

ByeUnchanged == UNCHANGED <<llm_vars, ext_vars, history_vars, text_vars, is_speaking, conn, sock_open, pipeline_triggered,
                            send_lock, n_tasks, alarm, env_vars>>

\* an end of the coroutine that leaves the frame counter in place
ByeEndKeepCounter(t) ==
    /\ reset_audio_buffer
    /\ UNCHANGED frame_counters
    /\ tasks' = [tasks EXCEPT ![t] = Retire([@ EXCEPT !.ws_open = (tasks[t].pc = "b_reset")])]

\* handler.py 207-208, the end of the coroutine; `ws_open` observes whether
\* it was reached with no failed write
ByeEnd(t) ==
    /\ reset_audio_buffer
    /\ frame_counters' = Pop(frame_counters, SID)
    /\ tasks' = [tasks EXCEPT ![t] = Retire([@ EXCEPT !.ws_open = (tasks[t].pc = "b_reset")])]

\* a write of the goodbye raised: both try blocks are left, the socket is
\* closed (handler.py 191-205) and the coroutine ends
ByeFail(t) ==
    /\ is_idling' = "True"
    /\ ByeEnd(t)

ByeSend(t, m, pc) ==
    /\ tasks' = [tasks EXCEPT ![t].pc = pc, ![t].sent = Append(@, Msg(m, 0))]
    /\ UNCHANGED <<pcm_buffer, silent_frames, speech_frames, has_speech, aborted,
                   frame_counters>>

ByeStart(t) ==
    /\ tasks[t].kind = "bye" /\ tasks[t].pc = "launched"
    /\ IF sock_open
       THEN is_idling' = "True" /\ ByeSend(t, "start", "b_ss")
       ELSE ByeFail(t)
    /\ ByeUnchanged

ByeSentence(t) ==
    /\ tasks[t].kind = "bye" /\ tasks[t].pc = "b_ss"
    /\ IF sock_open
       THEN ByeSend(t, "ss", "b_frames") /\ UNCHANGED is_idling
       ELSE ByeFail(t)
    /\ ByeUnchanged

\* the loop over synthesize(goodbye_text), then `tts stop`
ByeFrame(t, ev) ==
    /\ tasks[t].kind = "bye" /\ tasks[t].pc = "b_frames"
    /\ ev = "frame" => tasks[t].nfr < MaxSentenceFrames
    /\ IF ~sock_open THEN ByeFail(t)
       ELSE IF ev = "frame" /\ ~aborted
       THEN /\ tasks' = [tasks EXCEPT ![t].nfr = @ + 1,
                                      ![t].sent = Append(@, Msg("frame", 0))]
            /\ UNCHANGED <<session_vars, frame_counters>>
       ELSE ByeSend(t, "stop", "b_idle") /\ UNCHANGED is_idling
    /\ ByeUnchanged

ByeIdle(t) ==
    /\ tasks[t].kind = "bye" /\ tasks[t].pc = "b_idle"
    /\ IF sock_open
       THEN is_idling' = "True" /\ ByeSend(t, "idle", "b_reset")
       ELSE ByeFail(t)
    /\ ByeUnchanged

ByeReset(t) ==
    /\ tasks[t].kind = "bye" /\ tasks[t].pc = "b_reset"
    /\ ByeEnd(t)
    /\ UNCHANGED is_idling
    /\ ByeUnchanged

----------------------------------------------------------------------------
(* _trigger_alarm_for_session *)

AlarmUnchanged == UNCHANGED <<llm_vars, ext_vars, history_vars, text_vars, pcm_buffer, silent_frames, speech_frames,
                              has_speech, conn, sock_open, frame_counters,
                              pipeline_triggered, tasks, n_tasks, env_vars>>

\* _alarm_loop finds a due alarm and the session in _session_ws
AlarmTrigger ==
    /\ conn # "closed"
    /\ alarm.pc \in {"idle", "done"}
    /\ alarm.n < MaxAlarms
    /\ alarm' = [pc |-> "launched", nfr |-> 0, n |-> alarm.n + 1]
    /\ UNCHANGED <<aborted, is_speaking, is_idling, send_lock>>
    /\ AlarmUnchanged

\* the flags, the lock, `tts start`
AlarmStart ==
    /\ alarm.pc = "launched"
    /\ is_idling' = "False"
    /\ is_speaking' = TRUE
    /\ aborted' = FALSE
    /\ IF sock_open
       THEN /\ alarm' = [alarm EXCEPT !.pc = "a_ss"]
            /\ send_lock' = IF send_lock = "none" THEN "none" ELSE "held"
       ELSE \* the write raised: the lock is released
            /\ alarm' = [alarm EXCEPT !.pc = "a_frames"]
            /\ UNCHANGED send_lock
    /\ AlarmUnchanged

\* `sentence_start`, then the lock is released
AlarmSentence ==
    /\ alarm.pc = "a_ss"
    /\ send_lock' = IF send_lock = "held" THEN "free" ELSE send_lock
    /\ alarm' = [alarm EXCEPT !.pc = "a_frames"]
    /\ UNCHANGED <<aborted, is_speaking, is_idling>>
    /\ AlarmUnchanged

\* _stream_once: a frame of the ringtone, written under the lock, or its end
AlarmFrame(ev) ==
    /\ alarm.pc = "a_frames"
    /\ ev = "frame" => alarm.nfr < MaxAlarmFrames
    /\ alarm' = IF ev = "frame" /\ sock_open THEN [alarm EXCEPT !.nfr = @ + 1]
                ELSE [alarm EXCEPT !.pc = "a_stop"]
    /\ UNCHANGED <<aborted, is_speaking, is_idling, send_lock>>
    /\ AlarmUnchanged

AlarmStop ==
    /\ alarm.pc = "a_stop"
    /\ alarm' = [alarm EXCEPT !.pc = "a_fin"]
    /\ UNCHANGED <<aborted, is_speaking, is_idling, send_lock>>
    /\ AlarmUnchanged

AlarmFinish ==
    /\ alarm.pc = "a_fin"
    /\ is_speaking' = FALSE
    /\ alarm' = [alarm EXCEPT !.pc = "done", !.nfr = 0]
    /\ UNCHANGED <<aborted, is_idling, send_lock>>
    /\ AlarmUnchanged

----------------------------------------------------------------------------
(* TTSService: the robot voice style.  The carrier phase is counted in      *)
(* steps of a period of PhaseSteps, samples are small integers, and the      *)
(* one-pole low-pass has alpha = 1/2.                                        *)

\* TTSService.__init__ (tts.py 44, 60-61): the style and the DSP state
TTSService(robot) == [enabled |-> robot, phase |-> 0, lp_prev |-> 0]

\* the first sample of the text that every call synthesizes
DrySample == 2 * PhaseSteps

\* the square carrier at a phase (tts.py 345-347)
Carrier(phase) == IF 2 * phase < PhaseSteps THEN 1 ELSE -1

\* the low-pass state after one sample (tts.py 356-359)
LowPass(prev, sample) == prev + (sample - prev) \div 2

\* _apply_voice_style on a chunk that spans `adv` steps of the carrier: the
\* styled chunk, observed by its carrier and its filtered sample
StyledChunk(d) ==
    IF d.enabled
    THEN <<Carrier(d.phase), LowPass(d.lp_prev, DrySample * Carrier(d.phase))>>
    ELSE <<0, DrySample>>

\* a call of synthesize(text) begins (tts.py 105-118)
SynthStart ==
    /\ Len(synth_calls) < MaxSynthCalls
    /\ synth_calls' = Append(synth_calls,
                             [left |-> MaxChunks, at_start |-> <<dsp.phase, dsp.lp_prev>>,
                              first |-> <<>>])
    /\ UNCHANGED <<llm_vars, session_vars, handler_vars, task_vars, env_vars,
                   history_vars, text_vars, sched_vars, pace_vars, reply_vars, fn_vars, dsp>>

\* call c takes a PCM chunk from Piper and styles it (tts.py 139-151,
\* 325-366)
SynthChunk(c, adv) ==
    /\ c \in 1..Len(synth_calls) /\ synth_calls[c].left > 0
    /\ synth_calls' = [synth_calls EXCEPT
                          ![c].left = @ - 1,
                          ![c].first = IF @ = <<>> THEN StyledChunk(dsp) ELSE @]
    /\ dsp' = IF dsp.enabled
              THEN [dsp EXCEPT !.phase = (@ + adv) % PhaseSteps,
                               !.lp_prev = StyledChunk(dsp)[2]]
              ELSE dsp
    /\ UNCHANGED <<llm_vars, session_vars, handler_vars, task_vars, env_vars,
                   history_vars, text_vars, sched_vars, pace_vars, reply_vars, fn_vars>>

----------------------------------------------------------------------------
(* Pacing of a frame stream: the consumer of _stream_response and            *)
(* _send_frames_with_pacing run the same steps after each send.  Time is in  *)
(* milliseconds.                                                             *)

\* how long the stream takes to yield its next frame, and by how much a
\* sleep overshoots
FrameDelays == {0, 20, 200}
Overshoots == {0, 5}

\* the clock and the target after the pacing step that follows the send of
\* frame number `sent` at time `now`
Paced(sent, next_send_ts, now, over) ==
    IF sent = PRE_BUFFER
    THEN [next_send_ts |-> now + frame_duration_ms, now |-> now]
    ELSE IF sent > PRE_BUFFER /\ next_send_ts # -1
    THEN [next_send_ts |-> next_send_ts + frame_duration_ms,
          now |-> IF now < next_send_ts THEN next_send_ts + over ELSE now]
    ELSE [next_send_ts |-> next_send_ts, now |-> now]

\* the stream yields a frame after `delay`; it is sent, then the sender
\* runs its pacing step
PaceFrame(delay, over) ==
    /\ pace.sent < MaxPacedFrames
    /\ LET at == pace.now + delay
           p == Paced(pace.sent + 1, pace.next_send_ts, at, over)
       IN pace' = [sent |-> pace.sent + 1, next_send_ts |-> p.next_send_ts,
                   now |-> p.now, last_send |-> at, gap |-> at - pace.last_send]
    /\ UNCHANGED <<llm_vars, session_vars, handler_vars, task_vars, env_vars,
                   history_vars, text_vars, sched_vars, dsp_vars, reply_vars, fn_vars>>

----------------------------------------------------------------------------
(* The alarm scheduler: _alarm_loop and the set_alarm tool.  A record of     *)
(* alarms.json is modelled by its `triggered` field and by `due`, whether    *)
(* its time has passed.                                                      *)

\* _tool_set_alarm appends a record (tools.py 126-147)
SetAlarm ==
    /\ Len(alarm_file) < MaxAlarmRecords
    /\ alarm_file' = Append(alarm_file, [triggered |-> FALSE, due |-> FALSE])
    /\ alarm_deliveries' = Append(alarm_deliveries, 0)
    /\ UNCHANGED <<llm_vars, session_vars, handler_vars, task_vars, env_vars,
                   history_vars, text_vars, ticks, pace_vars, dsp_vars, reply_vars, fn_vars>>

\* the time of record i passes
AlarmDue(i) ==
    /\ i \in 1..Len(alarm_file) /\ ~alarm_file[i].due
    /\ alarm_file' = [alarm_file EXCEPT ![i].due = TRUE]
    /\ UNCHANGED <<llm_vars, session_vars, handler_vars, task_vars, env_vars,
                   history_vars, text_vars, alarm_deliveries, ticks, pace_vars, dsp_vars,
                   reply_vars, fn_vars>>

\* the records a pass of the loop marks: not triggered, and due
Fires(i) == ~alarm_file[i].triggered /\ alarm_file[i].due

\* one pass of _alarm_loop (alarm_scheduler.py 162-204): the file is read,
\* every record that fires is marked in the copy and a delivery task is
\* created for the session if its socket is registered; the copy is written
\* back if anything was marked, and `persists` tells whether the write
\* succeeds
Tick(persists) ==
    /\ ticks < MaxTicks
    /\ ticks' = ticks + 1
    /\ alarm_deliveries' =
          [i \in 1..Len(alarm_file) |->
              IF Fires(i) /\ conn # "closed" THEN alarm_deliveries[i] + 1
              ELSE alarm_deliveries[i]]
    /\ alarm_file' =
          IF persists
          THEN [i \in 1..Len(alarm_file) |->
                  IF Fires(i) THEN [alarm_file[i] EXCEPT !.triggered = TRUE]
                  ELSE alarm_file[i]]
          ELSE alarm_file
    /\ UNCHANGED <<llm_vars, session_vars, handler_vars, task_vars, env_vars,
                   history_vars, text_vars, pace_vars, dsp_vars, reply_vars, fn_vars>>

----------------------------------------------------------------------------
(* One generative reply: process after on_tts_start, with the queue of
   _stream_response at its real capacity and the parallel intent task.  Every
   chunk of the language model completes at most one sentence, and every
   sentence is synthesized into FramesPerSentence frames. *)

\* the state of process when response_task and intent_task have been created
\* (pipeline.py 107-130) and neither has run:
\*   queue: the asyncio.Queue; prod: where the producer is ("llm" in the
\*   async for, "synth" in _enqueue_sentence, "done"); pending: the item of a
\*   put that waits for room; last: the sentence is the residual after the end
\*   of the stream; nsent, nfr: sentences and frames of the sentence put;
\*   dones: sentinels put; cons: where the consumer
\*   is ("get", "grace" in the sleep before a caption, "done");
\*   has_spoken_sentence; music_active: music_mode["active"]; intent: the
\*   intent task ("off" never created, "created", "detect", "tool", or its
\*   result "other"/"music"); detects: calls of intent.detect; late: a
\*   caption or frame of the reply was sent with music_active set; phase: where
\*   process is ("stream" awaiting response_task, "joined" awaiting
\*   intent_task, "preview" in _stream_music_preview, "done")
process(prefer_fast_only) ==
    [queue |-> <<>>, prod |-> "llm", pending |-> "none", last |-> FALSE,
     nsent |-> 0, nfr |-> 0, dones |-> 0,
     cons |-> "get", has_spoken_sentence |-> FALSE,
     prefer_fast_only |-> prefer_fast_only, music_active |-> FALSE,
     intent |-> IF prefer_fast_only THEN "off" ELSE "created", detects |-> 0,
     late |-> FALSE, phase |-> "stream"]

\* `is_aborted() or should_stop_generation()`
ShouldStop(r) == aborted \/ r.music_active

\* `await queue.put(item)` by the producer: the item is placed when the queue
\* has room, and the producer waits otherwise
queue_put(r, item) ==
    IF Len(r.queue) < maxsize
    THEN [r EXCEPT !.queue = Append(@, item), !.pending = "none",
                   !.prod = IF item = "DONE" THEN "done" ELSE "synth",
                   !.dones = IF item = "DONE" THEN @ + 1 ELSE @,
                   !.nfr = IF item = "F" THEN @ + 1 ELSE 0]
    ELSE [r EXCEPT !.pending = item]

\* a producer whose sentinel is put at the end of the try block: an exception
\* skips it
producer_exit_in_try(r, how) ==
    IF how = "raise" THEN [r EXCEPT !.prod = "done"] ELSE queue_put(r, "DONE")

\* the producer leaves its try block, by the end of the stream ("end"), a
\* break ("stop") or an exception ("raise"): `finally: await queue.put(_DONE)`
producer_exit(r, how) == queue_put(r, "DONE")

\* _enqueue_sentence begins: the sentence marker is put
enqueue_sentence(r, last) ==
    queue_put([r EXCEPT !.nsent = @ + 1, !.last = last], "M")

ReplyUnchanged ==
    UNCHANGED <<llm_vars, session_vars, handler_vars, task_vars, env_vars,
                history_vars, text_vars, sched_vars, pace_vars, dsp_vars, fn_vars>>

\* producer: chat_stream yields a chunk that completes a sentence
\* ("sentence"), ends with ("end_rest") or without ("end") a residual, or
\* raises
ReplyChunk(ev) ==
    /\ reply.phase = "stream" /\ reply.prod = "llm" /\ reply.pending = "none"
    /\ ev \in {"sentence", "end_rest"} => reply.nsent < MaxReplySentences
    /\ reply' = CASE ev = "raise" -> producer_exit(reply, "raise")
                  [] ev = "end" -> producer_exit(reply, "end")
                  [] ShouldStop(reply) -> producer_exit(reply, "stop")
                  [] OTHER -> enqueue_sentence(reply, ev = "end_rest")
    /\ ReplyUnchanged

\* what follows _enqueue_sentence: the end of the producer after the
\* residual, or the next chunk
AfterSentence(r) ==
    IF r.last THEN producer_exit(r, "end")
    ELSE [r EXCEPT !.prod = "llm", !.nfr = 0]

\* producer in _enqueue_sentence: synthesize yields a frame, ends, or raises
ReplyFrame(ev) ==
    /\ reply.phase = "stream" /\ reply.prod = "synth" /\ reply.pending = "none"
    /\ ev = "frame" => reply.nfr < FramesPerSentence
    /\ ev = "end" => reply.nfr = FramesPerSentence
    /\ reply' = CASE ev = "raise" -> producer_exit(reply, "raise")
                  [] ev = "frame" /\ ~aborted -> queue_put(reply, "F")
                  [] OTHER -> AfterSentence(reply)
    /\ ReplyUnchanged

\* producer: the put that waited finds room
ReplyPut ==
    /\ reply.pending # "none" /\ Len(reply.queue) < maxsize
    /\ reply' = queue_put(reply, reply.pending)
    /\ ReplyUnchanged

\* consumer: one queue.get()
ReplyGet ==
    /\ reply.cons = "get" /\ reply.queue # <<>>
    /\ LET r == [reply EXCEPT !.queue = Tail(@)]
           item == Head(reply.queue)
       IN
       reply' = CASE item = "DONE" -> [r EXCEPT !.cons = "done"]
                  [] ShouldStop(reply) -> r
                  [] item = "M" /\ r.has_spoken_sentence -> [r EXCEPT !.cons = "grace"]
                  [] item = "M" -> [r EXCEPT !.has_spoken_sentence = TRUE]
                  [] OTHER -> r
    /\ ReplyUnchanged

\* consumer: the sleep before a caption is over; on_tts_sentence
ReplyGrace ==
    /\ reply.cons = "grace"
    /\ reply' = [reply EXCEPT !.cons = "get", !.late = @ \/ reply.music_active]
    /\ ReplyUnchanged

\* the intent task runs: intent.detect is called
IntentStart ==
    /\ reply.intent = "created"
    /\ reply' = [reply EXCEPT !.intent = "detect", !.detects = @ + 1]
    /\ ReplyUnchanged

\* intent.detect returns "music" or "other", or raises
IntentDetect(res) ==
    /\ reply.intent = "detect"
    /\ reply' = IF res = "music"
                THEN [reply EXCEPT !.music_active = TRUE, !.intent = "tool"]
                ELSE [reply EXCEPT !.intent = "other"]
    /\ ReplyUnchanged

\* _call_music_tool returns its payload, or raises
IntentTool(ok) ==
    /\ reply.intent = "tool"
    /\ reply' = [reply EXCEPT !.intent = IF ok THEN "music" ELSE "other"]
    /\ ReplyUnchanged

\* asyncio.gather(producer(), consumer()) returns: response_task is done
ReplyJoin ==
    /\ reply.phase = "stream" /\ reply.prod = "done" /\ reply.cons = "done"
    /\ reply' = [reply EXCEPT !.phase = "joined"]
    /\ ReplyUnchanged

\* `await intent_task` returns, or there is no intent task
ReplyIntentJoined ==
    /\ reply.phase = "joined" /\ reply.intent \in {"off", "other", "music"}
    /\ reply' = [reply EXCEPT !.phase = IF reply.intent = "music" THEN "preview" ELSE "done"]
    /\ ReplyUnchanged

\* _stream_music_preview returns
ReplyPreview ==
    /\ reply.phase = "preview"
    /\ reply' = [reply EXCEPT !.phase = "done"]
    /\ ReplyUnchanged

----------------------------------------------------------------------------
(* The text of a reply on its way to TTS: _extract_sentence,
   _extract_soft_chunk and the producer's use of them.  A text is a sequence
   of one-character strings. *)

\* the characters str.strip removes, among those of the model
IsSpace(c) == c \in {" ", "\t", "\n"}

RECURSIVE rstrip(_)
rstrip(t) ==
    IF t = <<>> \/ ~IsSpace(t[Len(t)]) THEN t ELSE rstrip(SubSeq(t, 1, Len(t) - 1))

RECURSIVE lstrip(_)
lstrip(t) == IF t = <<>> \/ ~IsSpace(t[1]) THEN t ELSE lstrip(Tail(t))

strip(t) == lstrip(rstrip(t))

\* the highest index i (counted from 0, as Python does) with start <= i < end
\* whose character is in `set`, or -1: str.rfind, and the loop
\* `for i in range(limit - 1, CHUNK_MIN_CHARS - 1, -1)`
RECURSIVE rfind(_, _, _, _)
rfind(t, set, start, end) ==
    IF end <= start THEN -1
    ELSE IF t[end] \in set THEN end - 1
    ELSE rfind(t, set, start, end - 1)

\* the index (from 0) of the first character of t in `set`, or -1
RECURSIVE find(_, _, _)
find(t, set, from) ==
    IF from >= Len(t) THEN -1
    ELSE IF t[from + 1] \in set THEN from
    ELSE find(t, set, from + 1)

\* a result (None, remaining)
NoText(remaining) == [found |-> FALSE, text |-> <<>>, remaining |-> remaining]

\* an _extract_soft_chunk without its last length test
extract_soft_chunk_unchecked(buffer) ==
    IF Len(buffer) < CHUNK_MIN_CHARS THEN NoText(buffer)
    ELSE LET limit == Min(Len(buffer), CHUNK_HARD_LIMIT)
             punct_cut == rfind(buffer, CHUNK_PUNCT_BREAKS, CHUNK_MIN_CHARS, limit)
             space_cut == rfind(buffer, {CHUNK_SPACE_BREAK}, CHUNK_MIN_CHARS, limit)
         IN
         IF punct_cut # -1
         THEN [found |-> TRUE, text |-> rstrip(SubSeq(buffer, 1, punct_cut + 1)),
               remaining |-> lstrip(SubSeq(buffer, punct_cut + 2, Len(buffer)))]
         ELSE IF space_cut = -1 THEN NoText(buffer)
         ELSE [found |-> TRUE, text |-> rstrip(SubSeq(buffer, 1, space_cut)),
               remaining |-> lstrip(SubSeq(buffer, space_cut + 2, Len(buffer)))]

\* ConversationPipeline._extract_soft_chunk
extract_soft_chunk(buffer) ==
    IF Len(buffer) < CHUNK_MIN_CHARS THEN NoText(buffer)
    ELSE LET limit == Min(Len(buffer), CHUNK_HARD_LIMIT)
             punct_cut == rfind(buffer, CHUNK_PUNCT_BREAKS, CHUNK_MIN_CHARS, limit)
             space_cut == rfind(buffer, {CHUNK_SPACE_BREAK}, CHUNK_MIN_CHARS, limit)
             cut == IF punct_cut # -1
                    THEN [found |-> TRUE, text |-> rstrip(SubSeq(buffer, 1, punct_cut + 1)),
                          remaining |-> lstrip(SubSeq(buffer, punct_cut + 2, Len(buffer)))]
                    ELSE IF space_cut = -1 THEN NoText(buffer)
                    ELSE [found |-> TRUE, text |-> rstrip(SubSeq(buffer, 1, space_cut)),
                          remaining |-> lstrip(SubSeq(buffer, space_cut + 2, Len(buffer)))]
         IN
         IF cut.found /\ Len(cut.text) < CHUNK_MIN_CHARS THEN NoText(buffer) ELSE cut

\* an _extract_sentence whose remainder starts one character late
extract_sentence_skipping(buffer) ==
    LET i == find(buffer, SENTENCE_ENDINGS, 0) IN
    IF i = -1 THEN NoText(buffer)
    ELSE LET sentence == strip(SubSeq(buffer, 1, i + 1))
             remaining == SubSeq(buffer, i + 3, Len(buffer))
         IN IF Len(sentence) > 1
            THEN [found |-> TRUE, text |-> sentence, remaining |-> remaining]
            ELSE NoText(remaining)

\* ConversationPipeline._extract_sentence
extract_sentence(buffer) ==
    LET i == find(buffer, SENTENCE_ENDINGS, 0) IN
    IF i = -1 THEN NoText(buffer)
    ELSE LET sentence == strip(SubSeq(buffer, 1, i + 1))
             remaining == SubSeq(buffer, i + 2, Len(buffer))
         IN IF Len(sentence) > 1
            THEN [found |-> TRUE, text |-> sentence, remaining |-> remaining]
            ELSE NoText(remaining)

\* the producer before the first chunk; `taken` lists what left the buffer, in
\* order: the texts enqueued and, marked, the pieces _extract_sentence dropped
Producer == [buffer |-> <<>>, full_response |-> <<>>, enqueued |-> <<>>,
             taken |-> <<>>, chunks |-> 0, ended |-> FALSE,
             cut |-> [input |-> <<>>, result |-> NoText(<<>>)]]

\* `while True: sentence, buffer = self._extract_sentence(buffer) ...`
RECURSIVE Sentences(_)
Sentences(c) ==
    LET r == extract_sentence(c.buffer) IN
    IF r.found
    THEN Sentences([c EXCEPT !.buffer = r.remaining,
                             !.enqueued = Append(@, r.text),
                             !.taken = Append(@, <<"enqueued", r.text>>)])
    ELSE [c EXCEPT !.buffer = r.remaining,
                   !.taken = IF r.remaining = c.buffer THEN @
                             ELSE Append(@, <<"dropped",
                                    SubSeq(c.buffer, 1, Len(c.buffer) - Len(r.remaining))>>)]

\* `while len(buffer) >= CHUNK_HARD_LIMIT ...: text_chunk, buffer = ...`
RECURSIVE SoftChunks(_)
SoftChunks(c) ==
    IF Len(c.buffer) < CHUNK_HARD_LIMIT THEN c
    ELSE LET r == extract_soft_chunk(c.buffer) IN
         IF ~r.found THEN c
         ELSE SoftChunks([c EXCEPT !.buffer = r.remaining,
                                   !.enqueued = Append(@, r.text),
                                   !.taken = Append(@, <<"enqueued", r.text>>)])

ChunkerUnchanged ==
    UNCHANGED <<llm_vars, session_vars, handler_vars, task_vars, env_vars,
                history_vars, text_vars, sched_vars, pace_vars, dsp_vars, reply_vars,
                wire, cj, inbound, at_trigger>>

\* the body of the producer's `async for` for one chunk, with no abort and
\* no music stop
TextChunk(chunk) ==
    /\ ~chunker.ended /\ chunker.chunks < MaxTextChunks
    /\ chunker' = SoftChunks(Sentences(
                      [chunker EXCEPT !.full_response = @ \o chunk,
                                      !.buffer = @ \o chunk,
                                      !.chunks = @ + 1]))
    /\ ChunkerUnchanged

\* the stream ends: the residual is enqueued if it is not blank
TextEnd ==
    /\ ~chunker.ended
    /\ LET remaining == strip(chunker.buffer) IN
       chunker' = [chunker EXCEPT
                      !.ended = TRUE, !.buffer = <<>>,
                      !.enqueued = IF remaining # <<>> THEN Append(@, remaining) ELSE @,
                      !.taken = IF chunker.buffer # <<>>
                                THEN Append(@, <<IF remaining # <<>> THEN "enqueued"
                                                 ELSE "dropped", chunker.buffer>>)
                                ELSE @]
    /\ ChunkerUnchanged

\* one call of _extract_soft_chunk on the buffer
SoftCut ==
    /\ chunker.cut.input # chunker.buffer
    /\ LET r == extract_soft_chunk(chunker.buffer) IN
       chunker' = [chunker EXCEPT !.cut = [input |-> chunker.buffer, result |-> r],
                                  !.buffer = r.remaining]
    /\ ChunkerUnchanged

----------------------------------------------------------------------------
(* _extract_opus_payload and the start of _on_binary *)

\* the bytes before the payload in a protocol 2 and in a protocol 3 message
V2_HEADER == 16
V3_HEADER == 4

\* a binary message before _on_binary has looked at it
Message(data, version) ==
    [data |-> data, version |-> version, called |-> FALSE, handed |-> FALSE,
     opus |-> <<>>]

\* struct.unpack("!H", data[2:4])[0]
unpack_H(data) == data[3] * 256 + data[4]

\* _extract_opus_payload
extract_opus_payload(data, version) ==
    IF version = 2 /\ Len(data) > V2_HEADER
    THEN SubSeq(data, V2_HEADER + 1, Len(data))
    ELSE IF version = 3 /\ Len(data) > V3_HEADER
    THEN SubSeq(data, V3_HEADER + 1, Min(V3_HEADER + unpack_H(data), Len(data)))
    ELSE data

WireUnchanged ==
    UNCHANGED <<llm_vars, session_vars, handler_vars, task_vars, env_vars,
                history_vars, text_vars, sched_vars, pace_vars, dsp_vars, reply_vars,
                chunker, cj, inbound, at_trigger>>

\* _on_binary up to session.append_audio(opus_data): an empty payload is
\* not handed to the decoder
ExtractPayload ==
    /\ ~wire.called
    /\ LET opus_data == extract_opus_payload(wire.data, wire.version) IN
       wire' = [wire EXCEPT !.called = TRUE, !.handed = (opus_data # <<>>),
                            !.opus = opus_data]
    /\ WireUnchanged

----------------------------------------------------------------------------
(* chat_json and _parse_json_content *)

\* the keys of the objects a provider may answer with
Keys == {"a", "b"}

JsonError == [ok |-> FALSE, kind |-> "error", value |-> <<>>]

\* json.loads on a text over "{", "}", "[", "]", "1" and the keys: "{" key
\* "}" and "{" "}" are objects, "1" is a number, "[" "]" and "[" value "]"
\* are arrays, blanks around the value are skipped, anything else raises
RECURSIVE json_loads(_)
json_loads(text) ==
    LET t == strip(text) IN
    IF t = <<"{", "}">> \/ (Len(t) = 3 /\ t[1] = "{" /\ t[2] \in Keys /\ t[3] = "}")
    THEN [ok |-> TRUE, kind |-> "object", value |-> t]
    ELSE IF t = <<"1">>
    THEN [ok |-> TRUE, kind |-> "number", value |-> t]
    ELSE IF Len(t) >= 2 /\ t[1] = "[" /\ t[Len(t)] = "]"
    THEN IF strip(SubSeq(t, 2, Len(t) - 1)) = <<>> \/ json_loads(SubSeq(t, 2, Len(t) - 1)).ok
         THEN [ok |-> TRUE, kind |-> "array", value |-> t]
         ELSE JsonError
    ELSE JsonError

\* re.sub(r"^```(?:json)?\s*|\s*```$", "", raw).strip(), "f" standing for
\* the fence and "json" for the word after it
unfence(raw) ==
    LET t1 == IF raw # <<>> /\ raw[1] = "f" THEN Tail(raw) ELSE raw
        t2 == IF t1 # raw /\ t1 # <<>> /\ t1[1] = "json" THEN Tail(t1) ELSE t1
        t3 == IF t1 # raw THEN lstrip(t2) ELSE raw
        t4 == IF t3 # <<>> /\ t3[Len(t3)] = "f"
              THEN rstrip(SubSeq(t3, 1, Len(t3) - 1)) ELSE t3
    IN strip(t4)

\* _parse_json_content with only its first stage
parse_json_strictly(content) ==
    LET parsed == json_loads(strip(content)) IN
    IF parsed.ok /\ parsed.kind = "object" THEN parsed ELSE JsonError

\* _parse_json_content: the value, or JsonError where it raises
parse_json_content(content) ==
    LET raw == strip(content)
        parsed == json_loads(raw)
        fenced == json_loads(unfence(raw))
        start == find(raw, {"{"}, 0)
        end == rfind(raw, {"}"}, 0, Len(raw))
    IN
    IF parsed.ok /\ parsed.kind = "object" THEN parsed
    ELSE IF fenced.ok /\ fenced.kind = "object" THEN fenced
    ELSE IF start # -1 /\ end # -1 /\ end > start
    THEN json_loads(SubSeq(raw, start + 1, end + 1))
    ELSE JsonError

\* chat_json before its first call
ChatJson ==
    [i |-> 1, hinted |-> TRUE, calls |-> <<>>,
     result |-> [state |-> "pending", value |-> <<>>]]

\* the `except` of the loop: the next provider, or none after the last one
next_provider(c) ==
    IF c.i = NumProviders
    THEN [c EXCEPT !.result = [state |-> "none", value |-> <<>>]]
    ELSE [c EXCEPT !.i = @ + 1, !.hinted = TRUE]

\* one create call that retries without the hint whenever the hinted call
\* gave no object
create_retrying(c, raised, content) ==
    LET parsed == parse_json_content(content) IN
    IF ~raised /\ content # <<>> /\ parsed.ok
    THEN [c EXCEPT !.result = [state |-> "object", value |-> parsed.value]]
    ELSE IF c.hinted THEN [c EXCEPT !.hinted = FALSE]
    ELSE next_provider(c)

\* one create call of chat_json and what follows it up to the next call
create(c, raised, content) ==
    LET parsed == parse_json_content(content) IN
    IF raised
    THEN IF c.hinted THEN [c EXCEPT !.hinted = FALSE] ELSE next_provider(c)
    ELSE IF content = <<>> \/ ~parsed.ok
    THEN next_provider(c)
    ELSE [c EXCEPT !.result = [state |-> "object", value |-> parsed.value]]

CjUnchanged ==
    UNCHANGED <<llm_vars, session_vars, handler_vars, task_vars, env_vars,
                history_vars, text_vars, sched_vars, pace_vars, dsp_vars, reply_vars,
                chunker, wire, inbound, at_trigger>>

\* client.chat.completions.create raises, or answers with `content`
CjCreate(raised, content) ==
    /\ cj.result.state = "pending"
    /\ cj' = create([cj EXCEPT !.calls = Append(@, [provider |-> cj.i,
                                                     hinted |-> cj.hinted,
                                                     raised |-> raised,
                                                     content |-> content])],
                    raised, content)
    /\ CjUnchanged

----------------------------------------------------------------------------
(* Specifications *)

\* the functions checked on their own, before their first call
NoFrame == [parity |-> 0, decoded |-> TRUE, aborted |-> FALSE]

FnIdle ==
    /\ chunker = Producer /\ wire = Message(<<>>, 1) /\ cj = ChatJson
    /\ inbound = NoFrame /\ at_trigger = -1

\* Session.__init__ and handle_client up to its loop, and the services
\* beside the session before their first step
SessionWith(idling, counters) ==
    /\ pcm_buffer = 0
    /\ silent_frames = 0
    /\ speech_frames = 0
    /\ has_speech = FALSE
    /\ aborted = FALSE
    /\ is_speaking = FALSE
    /\ is_idling = idling
    /\ conn = "open"
    /\ sock_open = TRUE
    /\ frame_counters = counters
    /\ pipeline_triggered = {}
    /\ send_lock = "free"
    /\ tasks = [t \in TaskIds |-> NoTask]
    /\ n_tasks = 0
    /\ alarm = [pc |-> "idle", nfr |-> 0, n |-> 0]
    /\ listens = 0
    /\ utter_launches = 0
    /\ quiet_run = 0
    /\ chat_history = <<>>
    /\ history_log = <<>>
    /\ texts = <<>>
    /\ handler_sent = <<>>
    /\ alarm_file = <<>>
    /\ alarm_deliveries = <<>>
    /\ ticks = 0
    /\ pace = [sent |-> 0, next_send_ts |-> -1, now |-> 0, last_send |-> 0, gap |-> 0]
    /\ synth_calls = <<>>

SessionFields == SessionWith("unset", EmptyDict)

\* the same with the TTS service of the default voice style ("normal")
\* and the pipeline as Session.__init__ builds it, prefer_fast_only left at
\* its default
SessionInit ==
    SessionFields /\ dsp = TTSService(FALSE) /\ reply = process(TRUE) /\ FnIdle

\* chat_stream before its first step, with one provider behaviour
LlmIdle ==
    /\ llm_providers = [p \in Providers |-> [create |-> "ok", ev |-> <<"D">>, end |-> "END"]]
    /\ llm_pc = "create"
    /\ llm_i = 1
    /\ llm_pos = 1
    /\ llm_yielded = <<>>
    /\ llm_attempts = <<>>

Init == LlmIdle /\ SessionInit

SttResults == {"none", "gen", "music"}

\* an audio frame of the pipeline specifications: a short, quiet utterance,
\* streamed before any `listen start`
AudioFrame ==
    \E d \in BOOLEAN, rms \in QuietRms :
        /\ listens = 0
        /\ Get(frame_counters, SID, 0) < MaxUtterFrames
        /\ OnBinary(rms, d)

PipelineStep(t) ==
    \/ RunStart(t)
    \/ \E res \in SttResults : SttDone(t, res)
    \/ TtsStart(t)
    \/ \E ev \in {"sentence", "end_rest", "end"} : ProdChunk(t, ev)
    \/ \E ev \in {"frame", "end"}, more \in BOOLEAN : ProdFrame(t, ev, more)
    \/ ConsGet(t)
    \/ ConsGrace(t)
    \/ RunStop(t)
    \/ RunFinish(t)

MusicStep(t) ==
    \/ \E found \in BOOLEAN : MusicTool(t, found)
    \/ \E url \in BOOLEAN : MusicPreview(t, url)
    \/ \E ev \in {"frame", "end"} : MusicAck(t, ev)
    \/ MusicSong(t)
    \/ \E ev \in {"frame", "end"} : MusicSongFrame(t, ev)
    \/ \E ev \in {"frame", "end"} : MusicFallback(t, ev)

AlarmStep ==
    \/ AlarmTrigger
    \/ AlarmStart
    \/ AlarmSentence
    \/ \E ev \in {"frame", "end"} : AlarmFrame(ev)
    \/ AlarmStop
    \/ AlarmFinish

\* the session with the pipeline of one utterance
Next ==
    \/ ListenStop
    \/ Abort
    \/ AudioFrame
    \/ Disconnect
    \/ \E t \in TaskIds : PipelineStep(t)
    \/ \E t \in TaskIds : MusicStep(t)

Spec == Init /\ [][Next]_vars

\* the same where a coroutine that can take a step eventually takes one: the
\* event loop resumes every ready coroutine, and the requests to the speech
\* and language services return
RunSteps == \E t \in TaskIds : PipelineStep(t) \/ MusicStep(t)

SpecFlush == Init /\ [][Next]_vars /\ WF_vars(RunSteps)

\* the same with a later `listen start` and the alarm delivery
NextAlarm ==
    \/ Next
    \/ ListenStart
    \/ AlarmStep

SpecAlarm == Init /\ [][NextAlarm]_vars

\* an audio frame of the trigger specification: an utterance is a run of
\* voiced frames, at most MaxVoicedAt of them, followed by quiet frames; it
\* is either quiet from its first frame or voiced long enough to count as
\* speech; few frames arrive once the utterance is triggered.  Frames arrive
\* one by one at the start of an utterance and around the idle timeout
TriggerFrame ==
    \E rms \in TrigRms :
        LET count == Get(frame_counters, SID, 0) IN
        /\ count < IDLE_TIMEOUT_FRAMES + MaxIdleExtra
        /\ \/ count < MaxVoicedAt + silence_frames_needed + 1
           \/ count >= IDLE_TIMEOUT_FRAMES - 1
        /\ rms > silence_threshold => silent_frames = 0 /\ count < MaxVoicedAt
        /\ rms <= silence_threshold => speech_frames = 0 \/ has_speech
        /\ SID \in pipeline_triggered => pcm_buffer < MaxTrigFrames * PcmFrameBytes
        /\ OnBinary(rms, TRUE)

\* the quiet frames of a silent utterance up to the last one before the
\* idle timeout, handled back to back
QuietStretch ==
    /\ speech_frames = 0
    /\ OnBinaryQuiet(IDLE_TIMEOUT_FRAMES - 1 - Get(frame_counters, SID, 0))

ByeStep(t) ==
    \/ ByeStart(t)
    \/ ByeSentence(t)
    \/ \E ev \in {"frame", "end"} : ByeFrame(t, ev)
    \/ ByeIdle(t)
    \/ ByeReset(t)

\* the session with its launch sites; the transcription gives no text
NextTrig ==
    \/ ListenStart
    \/ ListenStop
    \/ Abort
    \/ TriggerFrame
    \/ QuietStretch
    \/ Disconnect
    \/ \E t \in TaskIds : RunStart(t)
    \/ \E t \in TaskIds : SttDone(t, "none")
    \/ \E t \in TaskIds : ByeStep(t)

SpecTrig == Init /\ [][NextTrig]_vars

\* an audio frame of the VAD specification: any rms class, few frames
VadFrame ==
    \E rms \in VadRms :
        /\ Get(frame_counters, SID, 0) < MaxVadFrames
        /\ OnBinary(rms, TRUE)

\* the session with its VAD; the transcription gives no text
NextVad ==
    \/ ListenStart
    \/ ListenStop
    \/ VadFrame
    \/ \E t \in TaskIds : RunStart(t)
    \/ \E t \in TaskIds : SttDone(t, "none")

SpecVad == Init /\ [][NextVad]_vars

\* the session over several utterances, with the alarm delivery; every
\* transcription is empty or a music request for which the tool finds no
\* track
NextListen ==
    \/ ListenStart
    \/ ListenStop
    \/ Abort
    \/ AudioFrame
    \/ \E t \in TaskIds : RunStart(t)
    \/ \E t \in TaskIds, res \in {"none", "music"} : SttDone(t, res)
    \/ \E t \in TaskIds : TtsStart(t)
    \/ \E t \in TaskIds : MusicTool(t, FALSE)
    \/ \E t \in TaskIds, url \in BOOLEAN : MusicPreview(t, url)
    \/ \E t \in TaskIds : RunFinish(t)
    \/ AlarmStep
    \/ Disconnect

SpecListen == Init /\ [][NextListen]_vars

\* the session with every kind of text message; the transcription gives no
\* text
NextText ==
    \/ \E kind \in TextKinds : OnText(kind)
    \/ ListenStart
    \/ ListenStop
    \/ Abort
    \/ AudioFrame
    \/ \E t \in TaskIds : RunStart(t)
    \/ \E t \in TaskIds : SttDone(t, "none")

SpecText == Init /\ [][NextText]_vars

\* the scheduler with a session that may disconnect
NextSched ==
    \/ SetAlarm
    \/ \E i \in 1..MaxAlarmRecords : AlarmDue(i)
    \/ \E persists \in BOOLEAN : Tick(persists)
    \/ Disconnect

SpecSched == Init /\ [][NextSched]_vars

\* the synthesizer of one TTS service, with either kind of voice style
InitDsp ==
    /\ LlmIdle
    /\ \E robot \in BOOLEAN : dsp = TTSService(robot)
    /\ reply = process(TRUE)
    /\ FnIdle
    /\ SessionFields

NextDsp ==
    \/ SynthStart
    \/ \E c \in 1..MaxSynthCalls, adv \in 1..(PhaseSteps - 1) : SynthChunk(c, adv)

SpecDsp == InitDsp /\ [][NextDsp]_vars

\* the client sends `abort` during the reply of a pipeline built as the
\* session builds it; a pipeline with the intent task is built by other callers
ReplyAbort == reply.prefer_fast_only /\ Abort

\* one generative reply, with either value of prefer_fast_only
InitReply ==
    /\ LlmIdle
    /\ SessionFields
    /\ dsp = TTSService(FALSE)
    /\ FnIdle
    /\ \E prefer_fast_only \in BOOLEAN : reply = process(prefer_fast_only)

ReplySteps ==
    \/ \E ev \in {"sentence", "end_rest", "end", "raise"} : ReplyChunk(ev)
    \/ \E ev \in {"frame", "end", "raise"} : ReplyFrame(ev)
    \/ ReplyPut
    \/ ReplyGet
    \/ ReplyGrace
    \/ IntentStart
    \/ \E res \in {"music", "other", "raise"} : IntentDetect(res)
    \/ \E ok \in BOOLEAN : IntentTool(ok)
    \/ ReplyJoin
    \/ ReplyIntentJoined
    \/ ReplyPreview

NextReply == ReplySteps \/ ReplyAbort

SpecReply == InitReply /\ [][NextReply]_vars

\* the same where a coroutine that can take a step eventually takes one and
\* the streams of the language and speech services come to their end
SpecReplyFair == InitReply /\ [][NextReply]_vars /\ WF_vars(ReplySteps)

\* n copies of the character c
Rep(c, n) == [i \in 1..n |-> c]

\* runs of at most MaxBreakLen characters at which a chunk may be cut or
\* stripped
Breaks == UNION {[1..n -> {" ", "\t", ":"}] : n \in 0..MaxBreakLen}

\* the buffers given to _extract_soft_chunk: three words with two runs of
\* breaks between them, the first run on either side of CHUNK_MIN_CHARS and
\* the second on either side of CHUNK_HARD_LIMIT
SoftBuffers ==
    {Rep("a", n1) \o w1 \o Rep("a", n2) \o w2 \o Rep("a", n3) :
        n1 \in (CHUNK_MIN_CHARS - 2)..(CHUNK_MIN_CHARS + 1),
        w1 \in Breaks,
        n2 \in {0} \cup {CHUNK_HARD_LIMIT - CHUNK_MIN_CHARS - d : d \in {0, 2, 4}},
        w2 \in Breaks,
        n3 \in {0, 3}}

InitSoft ==
    /\ LlmIdle
    /\ SessionFields
    /\ dsp = TTSService(FALSE)
    /\ reply = process(TRUE)
    /\ \E buffer \in SoftBuffers : chunker = [Producer EXCEPT !.buffer = buffer]
    /\ wire = Message(<<>>, 1)
    /\ cj = ChatJson
    /\ inbound = NoFrame
    /\ at_trigger = -1

SpecSoft == InitSoft /\ [][SoftCut]_vars

\* the chunks the language model streams: short ones around a sentence
\* ending, and a long phrase that makes the buffer pass CHUNK_HARD_LIMIT
ChunkTexts ==
    {<<"a">>, <<" ">>, <<".">>, <<"a", ".">>, <<".", " ">>, <<"!", "a">>, <<":">>,
     Rep("a", CHUNK_HARD_LIMIT \div 2) \o <<" ">>}

NextProducer == (\E chunk \in ChunkTexts : TextChunk(chunk)) \/ TextEnd

SpecProducer == Init /\ [][NextProducer]_vars

\* the session once a first `listen start` has been handled (`listens`
\* counts the ones handled after it), with its idle goodbye
InitListening ==
    /\ LlmIdle
    /\ SessionWith("False", Put(EmptyDict, SID, 0))
    /\ dsp = TTSService(FALSE)
    /\ reply = process(TRUE)
    /\ FnIdle

NextBye ==
    \/ ListenStart
    \/ TriggerFrame
    \/ QuietStretch
    \/ \E t \in TaskIds : ByeStep(t)

SpecBye == InitListening /\ [][NextBye]_vars

\* the session with `listen stop` observed, up to the first step of the
\* pipelines it creates
NextDrain ==
    \/ AudioFrame
    \/ ObservedStop
    \/ ListenStart
    \/ \E t \in TaskIds : RunStart(t)

SpecDrain == Init /\ [][NextDrain]_vars

\* the session with frames that may fail to decode and with `abort`
DroppableFrame ==
    \E rms \in TrigRms, decodes \in BOOLEAN :
        /\ Get(frame_counters, SID, 0) < MaxVadFrames
        /\ InboundFrame(rms, decodes)

NextInbound ==
    \/ ListenStart
    \/ Abort
    \/ DroppableFrame

SpecInbound == Init /\ [][NextInbound]_vars

\* the binary messages: MaxWireLen bytes at most, each byte its own position
\* but for the two that carry the payload size of protocol 3
PayloadSizes == {0, 2, V2_HEADER, 512}

WireMessages ==
    {[i \in 1..n |-> IF i = 3 THEN size \div 256
                     ELSE IF i = 4 THEN size % 256 ELSE i] :
        n \in 0..MaxWireLen, size \in PayloadSizes}

InitWire ==
    /\ LlmIdle
    /\ SessionFields
    /\ dsp = TTSService(FALSE)
    /\ reply = process(TRUE)
    /\ chunker = Producer
    /\ cj = ChatJson
    /\ inbound = NoFrame
    /\ at_trigger = -1
    /\ \E data \in WireMessages, version \in 1..3 : wire = Message(data, version)

SpecWire == InitWire /\ [][ExtractPayload]_vars

\* what a provider answers: nothing, blanks, an object bare, padded, fenced
\* or inside prose, an array around an object, other JSON values, prose, and
\* texts with braces that do not parse
Replies ==
    {<<>>, <<" ">>, <<"{", "a", "}">>, <<" ", "{", "b", "}", "\n">>,
     <<"f", "json", "\n", "{", "a", "}", "\n", "f">>, <<"f", "{", "}", "f">>,
     <<"x", "{", "a", "}", "x">>, <<"[", "{", "b", "}", "]">>,
     <<"1">>, <<"[", "1", "]">>, <<"x">>, <<"{", "a">>,
     <<"{", "a", "}", "{", "b", "}">>, <<"}", "{">>}

NextChatJson ==
    \/ CjCreate(TRUE, <<>>)
    \/ \E content \in Replies : CjCreate(FALSE, content)

SpecChatJson == Init /\ [][NextChatJson]_vars

\* one paced stream
NextPace == \E delay \in FrameDelays, over \in Overshoots : PaceFrame(delay, over)

SpecPace == Init /\ [][NextPace]_vars

\* a pipeline run hands its result to save_history: a request and a reply,
\* the reply empty (0) after the fast music path
SaveCall ==
    /\ Len(history_log) < 2 * MaxTurns
    /\ \E assistant_text \in {0, 1} : save_history(1, assistant_text)
    /\ UNCHANGED <<llm_vars, session_vars, handler_vars, task_vars, env_vars, text_vars, ext_vars>>

NextHist == SaveCall

SpecHist == Init /\ [][NextHist]_vars

InitLLM == LlmInit /\ SessionInit

NextLLM == LlmCreate \/ LlmReadFirst \/ LlmReadRest \/ LlmApology

SpecLLM == InitLLM /\ [][NextLLM]_vars

----------------------------------------------------------------------------
(* Claims about chat_stream *)

\* the non-empty deltas of provider p's stream, in order
RECURSIVE DeltasFrom(_, _)
DeltasFrom(p, k) ==
    IF k > Len(llm_providers[p].ev) THEN <<>>
    ELSE IF llm_providers[p].ev[k] = "D"
         THEN <<Delta(p, k)>> \o DeltasFrom(p, k + 1)
         ELSE DeltasFrom(p, k + 1)

\* provider p fails on its first read: the request raises, or its stream
\* raises or ends before a non-empty delta
FailsFirstRead(p) ==
    \/ llm_providers[p].create = "raise"
    \/ \A k \in 1..Len(llm_providers[p].ev) : llm_providers[p].ev[k] = "E"

\* C7: if providers 1..k-1 fail on their first read and provider k produces a
\* non-empty first delta, the sequence yielded by chat_stream is exactly
\* provider k's non-empty deltas, in order.
C7_FailoverLeavesNoTrace ==
    llm_pc = "done" =>
        \A k \in Providers :
            ((\A p \in 1..(k - 1) : FailsFirstRead(p)) /\ ~FailsFirstRead(k))
                => llm_yielded = DeltasFrom(k, 1)

\* C8: once chat_stream has yielded a delta of provider P, every item it
\* yields comes from P and no later provider is contacted.
C8_CommitAfterFirstSuccess ==
    llm_yielded # <<>> =>
        /\ \A n \in 1..Len(llm_yielded) : llm_yielded[n].src = llm_yielded[1].src
        /\ llm_yielded[1].src # 0 =>
               llm_attempts[Len(llm_attempts)] = llm_yielded[1].src

\* C9: if every provider fails (an empty or failing first read is what
\* chat_stream treats as the failure of a provider), chat_stream yields the
\* apology and nothing else, and has attempted each provider exactly once,
\* in list order.
C9_AllFailApology ==
    (llm_pc = "done" /\ \A p \in Providers : FailsFirstRead(p)) =>
        /\ llm_yielded = <<Apology>>
        /\ llm_attempts = [n \in 1..NumProviders |-> n]

\* every provider failed, one at its request and one in its stream
C9_Witness ==
    /\ llm_pc = "done"
    /\ \A p \in Providers : FailsFirstRead(p)
    /\ \E p \in Providers : llm_providers[p].end = "ERR" /\ llm_providers[p].ev # <<>>
    /\ \E p \in Providers : llm_providers[p].create = "raise"

----------------------------------------------------------------------------
(* Claims about the launch sites *)

\* C1: at any instant at most one _run_pipeline of the session has started
\* and not yet terminated.
C1_OnePipelineInFlight == Cardinality({t \in TaskIds : RunStarted(t)}) <= 1

\* C2: between two consecutive `listen start` messages, or the last one and
\* the end of the connection, at most one of the four launch sites fires.
C2_OneLaunchPerUtterance == utter_launches <= 1

\* the idle goodbye was launched for this utterance and a later frame of the
\* utterance passed the launch sites without a second launch
C2_Witness ==
    /\ utter_launches = 1
    /\ tasks[n_tasks].kind = "bye"
    /\ SID \in pipeline_triggered
    /\ Get(frame_counters, SID, 0) > IDLE_TIMEOUT_FRAMES

\* C10: when the frames of an utterance without confirmed speech and without
\* a triggered pipeline reach the idle timeout, the idle goodbye is the one
\* coroutine launched for the utterance.  (silent_frames counts the quiet
\* frames handled since the last reset while no pipeline was triggered.)
C10_IdleGoodbyeAt167 ==
    (silent_frames >= IDLE_TIMEOUT_FRAMES /\ ~has_speech) =>
        /\ utter_launches = 1
        /\ tasks[n_tasks].kind = "bye"

----------------------------------------------------------------------------
(* Claims about the writes of a pipeline run *)

\* C3: no pipeline run writes between the `tts start` and the `tts stop` of
\* an alarm delivery.
C3_AlarmBurstNotInterleaved == \A t \in TaskIds : ~tasks[t].mid_alarm

TtsKinds == {"start", "ss", "frame", "stop"}
IsTts(x) == x[1] \in TtsKinds

\* the tts messages and frames a coroutine wrote, by kind, in order
TtsOf(t) == LET q == SelectSeq(tasks[t].sent, IsTts) IN [i \in 1..Len(q) |-> q[i][1]]

SentFrame(t) == \E i \in 1..Len(tasks[t].sent) : tasks[t].sent[i][1] = "frame"

\* run t completed, no `abort` was handled while it was in flight, and it
\* sent a frame
CompletedWithFrames(t) ==
    /\ tasks[t].kind = "run" /\ tasks[t].pc = "done"
    /\ tasks[t].abort_at < 0
    /\ SentFrame(t)

\* start (sentence_start frame*)+ stop
ShapeLoose(q) ==
    /\ Len(q) >= 3
    /\ q[1] = "start" /\ q[2] = "ss" /\ q[Len(q)] = "stop"
    /\ \A i \in 2..(Len(q) - 1) : q[i] \in {"ss", "frame"}

\* start (sentence_start frame+)+ stop
ShapeStrict(q) ==
    /\ ShapeLoose(q)
    /\ \A i \in 2..(Len(q) - 1) : q[i] = "ss" => q[i + 1] = "frame"

\* C4 as claimed: every run that completes without abort and sends a frame
\* has the tts sequence start (sentence_start frame+)+ stop.
C4_TtsShapeAsClaimed ==
    \A t \in TaskIds : CompletedWithFrames(t) => ShapeStrict(TtsOf(t))

\* C4 as amended: every run that completes without abort, sends a frame and
\* has no failed write has the tts sequence start (sentence_start frame*)+
\* stop: one start first, one stop last, no frame before the first
\* sentence_start.
C4_TtsShape ==
    \A t \in TaskIds :
        (CompletedWithFrames(t) /\ tasks[t].ws_open) => ShapeLoose(TtsOf(t))

\* a completed run of two sentences, the first of which got no frame
C4_Witness ==
    \E t \in TaskIds :
        /\ CompletedWithFrames(t) /\ tasks[t].ws_open
        /\ LET q == TtsOf(t) IN
           /\ ShapeLoose(q)
           /\ q[3] = "ss"
           /\ q[Len(q) - 1] = "frame"

\* C5: once an `abort` was handled while a run was in flight, the run sends
\* no further audio frame.
C5_NoFrameAfterAbort ==
    \A t \in TaskIds :
        tasks[t].abort_at >= 0 =>
            \A i \in (tasks[t].abort_at + 1)..Len(tasks[t].sent) :
                tasks[t].sent[i][1] # "frame"

\* C6: a run during which an `abort` was handled sends no `tts stop`
\* afterwards.
C6_NoStopAfterAbort ==
    \A t \in TaskIds :
        tasks[t].abort_at >= 0 =>
            \A i \in (tasks[t].abort_at + 1)..Len(tasks[t].sent) :
                tasks[t].sent[i][1] # "stop"

----------------------------------------------------------------------------
(* Claims about the idle goodbye *)

KindsOf(q) == [i \in 1..Len(q) |-> q[i][1]]

\* start sentence_start frame* stop idle
ByeShape(q) ==
    /\ Len(q) >= 4
    /\ q[1] = "start" /\ q[2] = "ss"
    /\ q[Len(q) - 1] = "stop" /\ q[Len(q)] = "idle"
    /\ \A i \in 3..(Len(q) - 2) : q[i] = "frame"

\* C11: a goodbye that ends leaves the PCM buffer empty and the frame
\* counter removed; if none of its writes failed it has sent `tts start`,
\* `sentence_start`, the frames, `tts stop` and last the `idle` JSON, in
\* this order, and it has left the connection as it was.
C11_GoodbyeSequence ==
    [][\A t \in TaskIds :
         (tasks[t].kind = "bye" /\ tasks[t].pc # "done" /\ tasks'[t].pc = "done") =>
             /\ pcm_buffer' = 0
             /\ SID \notin DOMAIN frame_counters'
             /\ tasks'[t].ws_open =>
                    /\ ByeShape(KindsOf(tasks'[t].sent))
                    /\ sock_open' = sock_open /\ conn' = conn]_vars

\* a goodbye with a frame has ended on the open connection
C11_Witness ==
    \E t \in TaskIds :
        /\ tasks[t].kind = "bye" /\ tasks[t].pc = "done" /\ tasks[t].ws_open
        /\ ByeShape(KindsOf(tasks[t].sent))
        /\ Len(tasks[t].sent) > 4
        /\ conn = "open" /\ sock_open
        /\ pcm_buffer = 0 /\ SID \notin DOMAIN frame_counters

----------------------------------------------------------------------------
(* Claims about the VAD *)

\* a frame is handled and the VAD site launches a pipeline
VadFires ==
    /\ pcm_buffer' = pcm_buffer + PcmFrameBytes
    /\ n_tasks' = n_tasks + 1
    /\ tasks'[n_tasks'].kind = "run"

\* C12: when `silence_after_speech` launches a pipeline it is the first
\* launch of the utterance, has_speech is true and the 10 frames last
\* examined by the VAD all had rms <= silence_threshold.
C12_VadFiresOnce ==
    [][VadFires =>
         /\ utter_launches' = 1
         /\ has_speech /\ has_speech'
         /\ quiet_run' >= silence_frames_needed]_vars

\* the VAD has launched the pipeline of an utterance longer than the
\* shortest one that confirms speech and then falls silent
C12_Witness ==
    /\ utter_launches = 1 /\ n_tasks > 0
    /\ tasks[n_tasks].kind = "run"
    /\ has_speech /\ silent_frames >= silence_frames_needed
    /\ Get(frame_counters, SID, 0) > speech_frames_needed + silence_frames_needed

----------------------------------------------------------------------------
(* Claims about the conversation memory *)

\* C13: after any sequence of save_history calls the history holds at most
\* max_history entries, and they are the most recent entries ever appended,
\* in the order they were appended: trimming removes only the oldest.
C13_HistoryIsRecentWindow ==
    /\ Len(chat_history) <= max_history
    /\ chat_history = SubSeq(history_log,
                             Len(history_log) - Min(Len(history_log), max_history) + 1,
                             Len(history_log))

\* more was saved than the history holds, with both kinds of reply among
\* the entries dropped and among those kept
C13_Witness ==
    /\ Len(history_log) > max_history + 2
    /\ Len(chat_history) = max_history
    /\ history_log[2] # history_log[4]
    /\ chat_history[2] # chat_history[4]

\* C14: a non-empty history ends with an entry of role `assistant`.
C14_LastIsAssistant ==
    chat_history # <<>> => chat_history[Len(chat_history)][1] = "assistant"

\* a history that was trimmed, after a reply of the fast music path
C14_Witness ==
    /\ Len(history_log) > Len(chat_history)
    /\ chat_history[Len(chat_history)] = Entry("assistant", 0)
    /\ chat_history[1][1] = "user"

----------------------------------------------------------------------------
(* Claims about the session flags *)

\* C15: in every reachable state is_speaking implies not is_idling, across
\* pipeline runs, the idle goodbye, alarm delivery, listen and abort
\* handling.
C15_SpeakingNotIdling == is_speaking => is_idling # "True"

----------------------------------------------------------------------------
(* Claims about `listen` *)

\* a `listen start` or `listen detect` message is handled
ListenStartHandled == listens' = listens + 1

\* C16: `listen start`/`detect` leaves an empty PCM buffer, zero VAD counters,
\* has_speech false, is_idling false, a frame counter of 0 and the session
\* absent from _pipeline_triggered; it launches no pipeline and leaves the
\* chat history unchanged.
C16_ListenStartResets ==
    [][ListenStartHandled =>
         /\ pcm_buffer' = 0
         /\ silent_frames' = 0 /\ speech_frames' = 0
         /\ has_speech' = FALSE
         /\ is_idling' = "False"
         /\ SID \in DOMAIN frame_counters' /\ frame_counters'[SID] = 0
         /\ SID \notin pipeline_triggered'
         /\ n_tasks' = n_tasks /\ tasks' = tasks
         /\ chat_history' = chat_history]_vars

\* a `listen start` was handled after a pipeline that saved its turn, and
\* the next utterance is not triggered
C16_Witness ==
    /\ listens = 1 /\ utter_launches = 0
    /\ chat_history # <<>>
    /\ pcm_buffer = 0 /\ ~has_speech /\ is_idling = "False"
    /\ Get(frame_counters, SID, 1) = 0
    /\ SID \notin pipeline_triggered

\* C17: `listen stop` launches a pipeline and sets the triggered flag exactly
\* when the flag was not set; when it was set the message launches nothing
\* and changes no state of the session.
C17_ListenStopGuard ==
    [][ListenStop =>
         IF SID \in pipeline_triggered
         THEN UNCHANGED vars
         ELSE /\ pipeline_triggered' = pipeline_triggered \cup {SID}
              /\ n_tasks' = n_tasks + 1
              /\ tasks' = [tasks EXCEPT ![n_tasks + 1] = NewTask("run", "launched", FALSE)]
              /\ UNCHANGED <<session_vars, history_vars, frame_counters>>]_vars

\* a second utterance was stopped by `listen stop`: its pipeline is
\* launched and the flag, cleared by `listen start`, is set again
C17_Witness ==
    /\ listens = 1 /\ utter_launches = 1
    /\ n_tasks = 2 /\ tasks[2].kind = "run" /\ tasks[2].pc = "launched"
    /\ SID \in pipeline_triggered

----------------------------------------------------------------------------
(* Claims about the end of the connection *)

\* handle_client leaves its receive loop
DisconnectHandled == conn = "open" /\ conn' # "open"

\* the finally block has run a last pipeline
FlushLaunched == n_tasks' = n_tasks + 1 /\ tasks'[n_tasks'].inline

\* the session is unregistered: no socket, no send lock, no triggered flag,
\* no frame counter
Destroyed ==
    /\ conn = "closed" /\ send_lock = "none"
    /\ SID \notin pipeline_triggered /\ SID \notin DOMAIN frame_counters

\* C18: on disconnect one last pipeline is run exactly when the buffer holds
\* more than 3200 bytes and no pipeline was triggered for the current
\* utterance, and never a second one; in every case the session is
\* afterwards unregistered and destroyed, also when the writes of that last
\* pipeline fail.
C18_DisconnectFlush ==
    /\ [][DisconnectHandled =>
            /\ FlushLaunched <=>
                   (pcm_buffer > MinPipelineBytes /\ SID \notin pipeline_triggered)
            /\ ~FlushLaunched => n_tasks' = n_tasks /\ Destroyed']_vars
    /\ [](Cardinality({t \in TaskIds : tasks[t].inline}) <= 1)
    /\ [](\A t \in TaskIds : tasks[t].inline /\ tasks[t].pc = "done" => Destroyed)
    /\ [][Destroyed => Destroyed']_vars
    /\ (conn # "open") ~> Destroyed

\* the last pipeline ran to its end on a closed socket, after a reply it
\* could not send, and the session is gone
C18_Witness ==
    \E t \in TaskIds :
        /\ tasks[t].inline /\ tasks[t].pc = "done"
        /\ ~tasks[t].ws_open
        /\ chat_history # <<>>
        /\ Destroyed

----------------------------------------------------------------------------
(* Claims about the pipeline that has nothing to say *)

\* run t returns on too little audio (handler.py 326-328)
ShortEnd(t) ==
    /\ tasks[t].kind = "run" /\ tasks[t].pc = "launched"
    /\ pcm_buffer < MinPipelineBytes
    /\ tasks'[t].pc = "done"

\* run t ends because the transcription is empty: at once, in a launched run
\* or in the run of the finally block, or when the STT request returns
EmptyTextEnd(t) ==
    /\ tasks'[t].kind = "run" /\ tasks'[t].pc = "done" /\ tasks'[t].path = "none"
    /\ \/ tasks[t].kind = "run" /\ tasks[t].pc = "launched"
          /\ pcm_buffer >= MinPipelineBytes
       \/ tasks[t].kind = "run" /\ tasks[t].pc = "stt"
       \/ tasks[t].kind = "none"

\* C19, as claimed: a pipeline on too little audio or with an empty
\* transcription sends no message at all, leaves the history unchanged and
\* ends with is_speaking false.
C19_SilentPipelineAsClaimed ==
    [][\A t \in TaskIds :
         ShortEnd(t) \/ EmptyTextEnd(t) =>
             /\ tasks'[t].sent = <<>>
             /\ chat_history' = chat_history
             /\ is_speaking' = FALSE]_vars

\* C19, amended: such a pipeline sends no message and leaves the history
\* unchanged; on an empty transcription it ends with is_speaking false, on
\* too little audio it leaves is_speaking as it was.
C19_SilentPipeline ==
    [][\A t \in TaskIds :
         ShortEnd(t) \/ EmptyTextEnd(t) =>
             /\ tasks'[t].sent = <<>>
             /\ chat_history' = chat_history
             /\ is_speaking' = IF ShortEnd(t) THEN is_speaking ELSE FALSE]_vars

\* a pipeline launched on an empty buffer during an alarm has returned
\* without a word: the alarm is still playing and is_speaking is still true
C19_Witness ==
    /\ is_speaking /\ AlarmBurstOpen
    /\ n_tasks = 1 /\ tasks[1].kind = "run" /\ tasks[1].pc = "done"
    /\ tasks[1].path = "none" /\ tasks[1].sent = <<>>
    /\ pcm_buffer = 0 /\ chat_history = <<>>

----------------------------------------------------------------------------
(* Claims about text messages *)

\* a text message of kind `kind` is handled
TextHandled(kind) == Len(texts') = Len(texts) + 1 /\ texts'[Len(texts')] = kind

\* C20: for a text message whose `type` is none of hello, listen, abort and
\* mcp, and for an `mcp` message with an unrecognized operation, the
\* transport sends a structured error JSON and the session state is
\* unchanged.
C20_UnknownMessageError ==
    [][TextHandled("other_type") \/ TextHandled("mcp_other") =>
         /\ Len(handler_sent') = Len(handler_sent) + 1
         /\ handler_sent'[Len(handler_sent')] = "mcp_error"
         /\ UNCHANGED <<session_vars, handler_vars, task_vars, history_vars>>]_vars

----------------------------------------------------------------------------
(* Claims about the fast music path *)

\* the place of a write in the fast path after its three opening messages:
\* caption and frames of the acknowledgement, caption and frames of the
\* song, `tts stop`
MusicRank(m) ==
    CASE m = Msg("ss", 1) -> 1
      [] m = Msg("frame", 1) -> 2
      [] m = Msg("ss", 2) -> 3
      [] m = Msg("frame", 2) -> 4
      [] m = Msg("stop", 0) -> 5
      [] OTHER -> 0

MusicOpening == <<Msg("stt", 0), Msg("start", 0), Msg("mcp", 0)>>

\* q is the start of a fast-path sequence: the opening, then writes in the
\* order of their ranks, each caption and the stop at most once, no song
\* before the acknowledgement
MusicPrefix(q) ==
    /\ \A i \in 1..Min(Len(q), 3) : q[i] = MusicOpening[i]
    /\ \A i \in 4..Len(q) :
          /\ MusicRank(q[i]) > 0
          /\ i > 4 => MusicRank(q[i - 1]) <= MusicRank(q[i])
          /\ (i > 4 /\ MusicRank(q[i]) \in {1, 3, 5}) => MusicRank(q[i - 1]) < MusicRank(q[i])
          /\ MusicRank(q[i]) \in {3, 4} => q[4] = Msg("ss", 1)

\* the number of captions in q
Captions(q) == Cardinality({i \in 1..Len(q) : q[i][1] = "ss"})

\* run t of the fast music path ends
MusicRunEnds(t) ==
    /\ tasks[t].kind = "run" /\ tasks[t].path = "music" /\ tasks[t].pc # "done"
    /\ tasks'[t].pc = "done"

\* the run ended with no failed write, no `abort` handled during it and
\* none in force from before
Undisturbed(rec) == rec.ws_open /\ rec.abort_at < 0 /\ ~aborted

----------------------------------------------------------------------------
(* Claims about the alarm scheduler *)

\* C22: the `triggered` field of a record goes from false to true once and
\* never back, and each alarm is delivered at most once to a connected
\* session, whatever the passes of the scheduler, also those whose write of
\* the alarm store fails.
C22_AlarmOnce ==
    /\ [][\A i \in 1..Len(alarm_file) :
            alarm_file[i].triggered => alarm_file'[i].triggered]_vars
    /\ [](\A i \in 1..Len(alarm_deliveries) : alarm_deliveries[i] <= 1)

----------------------------------------------------------------------------
(* Claims about pacing *)

\* the shortest time the claim allows between two paced sends: 55 ms
MinPacedGap == frame_duration_ms - 5

\* C23: the first 3 frames of a stream are sent with no pacing sleep, and
\* every frame from the 4th on is sent at least 55 ms after the frame before
\* it.
C23_PacedInterval ==
    /\ [][pace'.sent <= PRE_BUFFER => pace'.now = pace'.last_send]_vars
    /\ [](pace.sent > PRE_BUFFER => pace.gap >= MinPacedGap)

----------------------------------------------------------------------------
(* Claims about the synthesizer *)

\* C24: at the start of every synthesize call the carrier phase and the
\* low-pass state have their initial values, so two calls with the same
\* text and style produce the same first frame, whatever calls came before
\* or run at the same time.
C24_NoCrossUtteranceState ==
    \A c \in 1..Len(synth_calls) :
        /\ synth_calls[c].at_start = <<0, 0>>
        /\ \A b \in 1..Len(synth_calls) :
              (synth_calls[b].first # <<>> /\ synth_calls[c].first # <<>>) =>
                  synth_calls[b].first = synth_calls[c].first

\* a pipeline run whose send channel was marked closed
ChannelClosed(t) == tasks[t].kind = "run" /\ ~tasks[t].ws_open

\* C25: within a pipeline run the channel is marked closed by a write that
\* failed and by nothing else; from then on no send of that run calls the
\* socket again, nothing more of it reaches the client and the mark stays; the
\* run still comes to its end (the mark stays, so whenever some closed run is
\* unfinished a moment follows at which every closed run has ended), and the
\* step that ends it leaves is_speaking false
C25_ClosedChannel ==
    /\ [][\A t \in TaskIds :
            /\ ChannelClosed(t) =>
                  /\ tasks'[t].tried = tasks[t].tried
                  /\ tasks'[t].sent = tasks[t].sent
                  /\ ~tasks'[t].ws_open
            /\ (tasks[t].kind = "run" /\ tasks[t].ws_open /\ ~tasks'[t].ws_open) =>
                  /\ ~sock_open
                  /\ tasks'[t].tried = tasks[t].tried + 1
                  /\ tasks'[t].sent = tasks[t].sent
            /\ (ChannelClosed(t) /\ tasks[t].pc # "done" /\ tasks'[t].pc = "done") =>
                  ~is_speaking']_vars
    /\ (\E t \in TaskIds : ChannelClosed(t) /\ tasks[t].pc # "done")
           ~> (\A t \in TaskIds : ChannelClosed(t) => tasks[t].pc = "done")

\* a run that was cut off by the disconnection after its `tts start`, skipped
\* its remaining sends, the `tts stop` included, and has ended
C25_Witness ==
    \E t \in TaskIds :
        /\ ChannelClosed(t) /\ ~tasks[t].inline /\ tasks[t].pc = "done"
        /\ ~aborted /\ ~is_speaking
        /\ \E i \in 1..Len(tasks[t].sent) : tasks[t].sent[i][1] = "start"
        /\ \A i \in 1..Len(tasks[t].sent) : tasks[t].sent[i][1] # "stop"
        /\ tasks[t].tried = Len(tasks[t].sent) + 1

\* the captions and frames among the messages a run delivered, in order
Speech(q) == SelectSeq(q, LAMBDA m : m[1] \in {"ss", "frame"})

\* C26: in a run of the generative path the captions reach the client in
\* increasing sentence order, every delivered frame of sentence k comes after
\* the caption of sentence k and before any later caption, and no frame of a
\* sentence is still queued once a later caption has been delivered
C26_SentenceOrder ==
    \A t \in TaskIds :
        (tasks[t].kind = "run" /\ tasks[t].path = "gen") =>
            LET q == Speech(tasks[t].sent) IN
            /\ \A j \in 1..Len(q) :
                  /\ \A i \in 1..(j - 1) :
                        IF q[j][1] = "ss" THEN q[i][2] < q[j][2] ELSE q[i][2] <= q[j][2]
                  /\ q[j][1] = "frame" => \E i \in 1..(j - 1) : q[i] = Msg("ss", q[j][2])
            /\ \A n \in 1..Len(tasks[t].queue), j \in 1..Len(q) :
                  tasks[t].queue[n][1] = "F" => q[j][2] <= tasks[t].queue[n][2]

----------------------------------------------------------------------------
(* Claims about the voice activity detector *)

\* the VAD was reset: what reset_audio_buffer leaves
VadReset ==
    pcm_buffer' = 0 /\ silent_frames' = 0 /\ speech_frames' = 0 /\ ~has_speech' /\ ~aborted'

\* C27: in every state the session reaches, check_vad returns and leaves
\* what the three bands say, for an rms on either side of each threshold:
\* above 2500 the silent counter is reset, the loud counter incremented,
\* has_speech set when the loud counter reaches 8 and the result is `speech`;
\* in (2000, 2500] the silent counter is reset and the result is `speech` iff
\* has_speech; at or below 2000 the silent counter is incremented and the
\* result is `silence_after_speech` iff has_speech and the counter is at
\* least 10.  has_speech goes back to false only in reset_audio_buffer.
C27_ThreeBands ==
    /\ [](LET ThreeBands(rms) ==
                  IF rms > 2500
                  THEN [state |-> "speech", silent |-> 0, speech |-> speech_frames + 1,
                        has |-> (has_speech \/ speech_frames + 1 = 8)]
                  ELSE IF 2000 < rms /\ rms <= 2500
                  THEN [state |-> IF has_speech THEN "speech" ELSE "silence",
                        silent |-> 0, speech |-> speech_frames, has |-> has_speech]
                  ELSE [state |-> IF has_speech /\ silent_frames + 1 >= 10
                                  THEN "silence_after_speech" ELSE "silence",
                        silent |-> silent_frames + 1, speech |-> speech_frames,
                        has |-> has_speech]
          IN \A rms \in VadRms : check_vad(rms) = ThreeBands(rms))
    /\ [][(has_speech /\ ~has_speech') => VadReset]_vars

\* speech was confirmed with one loud frame to spare, frames of the middle
\* band came in between, and the silence that followed is long enough
C27_Witness ==
    /\ has_speech /\ speech_frames = speech_frames_needed + 1
    /\ silent_frames = silence_frames_needed
    /\ Get(frame_counters, SID, 0) > speech_frames + silent_frames
    /\ check_vad(silence_threshold).state = "silence_after_speech"
    /\ check_vad(speech_threshold).state = "speech"

\* C28 as stated: the loud counter counts consecutive loud frames, so it is
\* zero while speech is unconfirmed and the frame last examined was quiet,
\* and the frame before the one that confirms speech was not quiet
C28_ConsecutiveLoud ==
    /\ []((~has_speech /\ quiet_run > 0) => speech_frames = 0)
    /\ [][(~has_speech /\ has_speech') => quiet_run = 0]_vars

\* C28: the loud counter counts the loud frames since the last
\* reset_audio_buffer, consecutive or not: it changes only by a loud frame,
\* which adds one, or by the reset, and has_speech holds exactly when it has
\* reached speech_frames_needed
C28_CumulativeLoud ==
    /\ [](has_speech <=> speech_frames >= speech_frames_needed)
    /\ [][speech_frames' # speech_frames =>
             \/ VadReset
             \/ speech_frames' = speech_frames + 1 /\ silent_frames' = 0 /\ quiet_run' = 0]_vars

\* all loud frames but one were counted, the frame last examined was quiet,
\* and the next loud frame confirms speech
C28_Witness ==
    /\ ~has_speech /\ speech_frames = speech_frames_needed - 1
    /\ quiet_run > 0 /\ silent_frames > 0
    /\ check_vad(speech_threshold + 1).has

----------------------------------------------------------------------------
(* Claims about the generative reply *)

\* C29: however the producer leaves its loop (end of the stream, abort,
\* music stop, exception) it puts one sentinel and no more, as the last item
\* of the queue; the consumer stops at the sentinel and at nothing else; and
\* _stream_response returns, also when the producer has waited for room in
\* the full queue
C29_OneSentinel ==
    /\ [](/\ reply.dones <= 1
          /\ (reply.prod = "done") = (reply.dones = 1)
          /\ \A i \in 1..Len(reply.queue) :
                reply.queue[i] = "DONE" => i = Len(reply.queue)
          /\ reply.cons = "done" => (reply.dones = 1 /\ reply.queue = <<>>)
          /\ Len(reply.queue) <= maxsize)
    /\ [][reply.cons # "done" /\ reply'.cons = "done" =>
             Head(reply.queue) = "DONE"]_vars
    /\ <>(reply.prod = "done" /\ reply.cons = "done" /\ reply.phase # "stream")

\* the producer waits with its sentinel for room in the full queue, after an
\* abort, while the consumer drains
C29_Witness ==
    /\ Len(reply.queue) = maxsize /\ reply.pending = "DONE"
    /\ aborted /\ reply.cons = "get"

\* C30: no caption or frame of the generative reply is sent once the intent
\* task has set the music flag; the music preview starts only after producer
\* and consumer have ended; and with prefer_fast_only the intent task is
\* never started and intent.detect never called
C30_IntentPath ==
    /\ ~reply.late
    /\ reply.phase = "preview" =>
          (reply.prod = "done" /\ reply.cons = "done" /\ reply.music_active)
    /\ reply.prefer_fast_only =>
          (reply.intent = "off" /\ reply.detects = 0 /\ ~reply.music_active)

----------------------------------------------------------------------------
(* Claims about the text handed to TTS *)

\* C31: a chunk returned by _extract_soft_chunk has between 28 and 90
\* characters, it is a prefix of the buffer, the remainder is a suffix, and
\* what lies between them in the buffer is whitespace only; when no chunk is
\* returned the remainder is the buffer
C31_SoftChunk ==
    LET input == chunker.cut.input
        r == chunker.cut.result
        from == Len(r.text) + 1
        to == Len(input) - Len(r.remaining)
    IN
    input # <<>> =>
        IF r.found
        THEN /\ 28 <= Len(r.text) /\ Len(r.text) <= 90
             /\ from <= to + 1
             /\ r.text = SubSeq(input, 1, Len(r.text))
             /\ r.remaining = SubSeq(input, to + 1, Len(input))
             /\ \A i \in from..to : IsSpace(input[i])
        ELSE r.remaining = input

\* a chunk of the least length was cut at a space, and more than that space
\* was removed at the cut
C31_Witness ==
    /\ chunker.cut.result.found
    /\ Len(chunker.cut.result.text) = CHUNK_MIN_CHARS
    /\ Len(chunker.cut.result.text) + Len(chunker.cut.result.remaining) + 1
          < Len(chunker.cut.input)

\* a text with its whitespace removed
Squeeze(t) == SelectSeq(t, LAMBDA ch : ~IsSpace(ch))

\* the texts of a sequence of <<mark, text>> pieces, joined in order
RECURSIVE Joined(_)
Joined(ps) == IF ps = <<>> THEN <<>> ELSE Head(ps)[2] \o Joined(Tail(ps))

RECURSIVE JoinedTexts(_)
JoinedTexts(ts) == IF ts = <<>> THEN <<>> ELSE Head(ts) \o JoinedTexts(Tail(ts))

----------------------------------------------------------------------------
(* Claims about the music preview *)

\* C32: stream_audio_url(preview_url) is started only when the full-song
\* stream, attempted first, yielded zero frames, and never after an abort:
\* every step that starts the preview leaves the full-song loop with no
\* frame sent and with the session not aborted.
C32_PreviewOnlyAfterEmptySong ==
    [][\A t \in TaskIds :
          tasks'[t].pc = "m_fallback" /\ tasks[t].pc # "m_fallback" =>
              /\ tasks[t].pc = "m_song"
              /\ tasks[t].nfr = 0
              /\ ~aborted]_vars

----------------------------------------------------------------------------
(* Claims about the payload of a binary message *)

\* C33: the bytes handed to the decoder never include header bytes: protocol
\* 1 passes the whole message, protocol 2 the bytes after the 16-byte prefix,
\* protocol 3 exactly L bytes starting at offset 4, L being the big-endian
\* 16-bit value at bytes [2..4).
C33_PayloadOnly ==
    wire.handed =>
        LET data == wire.data IN
        CASE wire.version = 1 -> wire.opus = data
          [] wire.version = 2 ->
                /\ Len(data) > 16
                /\ wire.opus = SubSeq(data, 17, Len(data))
          [] wire.version = 3 ->
                /\ Len(data) >= 4
                /\ Len(wire.opus) = data[3] * 256 + data[4]
                /\ wire.opus = SubSeq(data, 5, 4 + Len(wire.opus))

----------------------------------------------------------------------------
(* Claims about chat_json *)

\* C34: chat_json returns the parsed object of the first provider, in list
\* order, whose response parses to a JSON object; each provider is called at
\* most twice, the second time without the hint and only if the hinted call
\* was refused; an empty, unparsable or non-object response fails the provider
\* and the next one is tried; the result is none exactly when every provider
\* failed.
C34_FirstObject ==
    LET calls == cj.calls
        n == Len(calls)
        Answered(k) == /\ ~calls[k].raised
                       /\ calls[k].content # <<>>
                       /\ parse_json_content(calls[k].content).ok
        Failed(k) == ~Answered(k) /\ (calls[k].raised => ~calls[k].hinted)
    IN
    /\ n > 0 => calls[1].provider = 1 /\ calls[1].hinted
    /\ \A k \in 1..(n - 1) :
          \/ /\ calls[k + 1].provider = calls[k].provider
             /\ calls[k].hinted /\ calls[k].raised /\ ~calls[k + 1].hinted
          \/ /\ calls[k + 1].provider = calls[k].provider + 1
             /\ Failed(k) /\ calls[k + 1].hinted
    /\ cj.result.state = "object" =>
          /\ n > 0 /\ Answered(n)
          /\ cj.result.value = parse_json_content(calls[n].content).value
    /\ \A k \in 1..n : Answered(k) => k = n /\ cj.result.state = "object"
    /\ cj.result.state = "none" <=>
          \A p \in Providers : \E k \in 1..n : calls[k].provider = p /\ Failed(k)
    /\ \A k \in 1..n :
          ~calls[k].raised =>
              /\ (\A j \in 1..Len(calls[k].content) : calls[k].content[j] # "{")
                    => ~Answered(k)
              /\ (\E key \in Keys : strip(calls[k].content) = <<"{", key, "}">>)
                    => Answered(k) /\ cj.result.value = strip(calls[k].content)

\* the first provider is refused with the hint and answers a number without
\* it; the second answers an object inside a fence, which is returned
C34_Witness ==
    /\ cj.result.state = "object"
    /\ Len(cj.calls) = 3
    /\ cj.calls[1].raised
    /\ cj.calls[2].content = <<"1">>
    /\ cj.calls[3].content[1] = "f"
    /\ cj.result.value = <<"{", "a", "}">>

----------------------------------------------------------------------------
(* Claims about inbound audio frames *)

\* C36: a frame that arrives while session.aborted is true, or that fails to
\* decode, is dropped with no effect: the PCM buffer, the frame counter, the
\* VAD counters and has_speech are unchanged, no pipeline or goodbye is
\* launched, and the connection stays open.
C36_DroppedFrame ==
    [][(inbound' # inbound /\ (aborted \/ ~inbound'.decoded)) =>
          /\ UNCHANGED <<pcm_buffer, frame_counters, silent_frames, speech_frames,
                         has_speech, pipeline_triggered, tasks, n_tasks, is_idling,
                         aborted>>
          /\ conn' = "open"]_vars

\* a frame that decodes was dropped on an aborted session that had
\* confirmed speech, holds audio and has launched nothing yet
C36_Witness ==
    /\ inbound.aborted /\ inbound.decoded /\ aborted
    /\ has_speech /\ pcm_buffer > 0 /\ SID \notin pipeline_triggered

\* C37: handling an inbound audio frame never ends the connection: _on_binary
\* completes without an error for every reachable session state, a session
\* that never received `listen` included, so handle_client leaves its loop
\* only when the client has disconnected.
C37_FrameNeverEndsConnection == conn # "open" => ~sock_open

----------------------------------------------------------------------------
(* Claims about tasks and later messages *)

\* C38: the pipeline launched by `listen stop` or by the VAD processes the
\* PCM that was buffered when it was triggered: whatever is handled between
\* its creation and its first step, the buffer it drains with
\* take_audio_buffer holds at least the bytes buffered at trigger time.
\* (The task created last is the one the last `listen stop` created.)
C38_DrainsTriggeredAudio ==
    [][(/\ n_tasks > 0
        /\ tasks[n_tasks].kind = "run" /\ tasks[n_tasks].pc = "launched"
        /\ tasks'[n_tasks].pc # "launched") =>
           pcm_buffer >= at_trigger]_vars

\* C39: a finishing idle goodbye does not disturb a newer utterance: when
\* `listen start` was handled while a goodbye was running (is_idling, set by
\* the goodbye's first step, is false again), no later step of that goodbye
\* sets is_idling, clears the PCM buffer or the VAD state, or removes the
\* frame counter.
C39_GoodbyeLeavesNewUtterance ==
    [][\A t \in TaskIds :
          (/\ tasks[t].kind = "bye"
           /\ tasks[t].pc \in {"b_ss", "b_frames", "b_idle", "b_reset"}
           /\ is_idling = "False"
           /\ tasks'[t] # tasks[t]) =>
              UNCHANGED <<is_idling, pcm_buffer, silent_frames, speech_frames,
                          has_speech, frame_counters>>]_vars

----------------------------------------------------------------------------
(* Claims about the registries *)

\* C40: until handle_client has returned the session id is a key of the
\* session map, the connection map and the send-mutex map; once it has
\* returned the id is in none of them, nor in _pipeline_triggered or
\* _frame_counters, whatever tasks of the session are still running or
\* finish later.
C40_RegistryConsistency ==
    /\ conn # "closed" =>
          /\ SID \in active_sessions
          /\ SID \in session_ws
          /\ SID \in session_send_locks
    /\ conn = "closed" =>
          /\ SID \notin active_sessions
          /\ SID \notin session_ws
          /\ SID \notin session_send_locks
          /\ SID \notin pipeline_triggered
          /\ SID \notin DOMAIN frame_counters

\* handle_client has returned after an utterance that had triggered its
\* idle goodbye, and the goodbye task has since run to its end
C40_Witness ==
    /\ conn = "closed"
    /\ \E t \in TaskIds :
          /\ tasks[t].kind = "bye" /\ tasks[t].pc = "done"
          /\ ~tasks[t].ws_open
          /\ tasks[t].sent # <<>>

====
